---------------------------- MODULE Spec2Model ----------------------------
(***************************************************************************)
(* Model of the canvas translation processor: extract.js, translate.js,   *)
(* merge.js, validate.js and the part of main.js that sequences them.     *)
(*                                                                         *)
(* Strings are sequences of atoms.  An atom is one character class ("a",  *)
(* "A", "0", " ", "_", "Hn" = one Hangul syllable, "Kn" = one kana) or a   *)
(* lexical unit the regular expressions of the source treat as a whole:   *)
(* a {{var_*}} token, a language directive phrase, or a long passage.     *)
(* null is the one-atom sequence Null; undefined is an absent field.      *)
(***************************************************************************)
EXTENDS Naturals, Integers, Sequences, FiniteSets, TLC

VARIABLES
  pc,                 \* position of processRequest in its pipeline
  store,              \* the objects: store[1] is the parsed canvas of the request
  targetLang,         \* request.targetLang
  encoder,            \* validate.js: whether js-tiktoken was loaded
  extractedData,      \* result of extractCanvas
  translatedBatches,  \* translateAllBatches: the replies appended so far
  batchIdx,           \* translateAllBatches: index in batchOrder of the next batch
  merged,             \* result of mergeTranslations: ref of the clone and stats
  again,              \* result of a second application of mergeTranslations
  validation,         \* result of validateCanvas
  clock,              \* Date.now()
  settings,           \* an advancedSettings object
  limit,              \* getCoreContextLimit(settings)
  runOnce,            \* main: the --once argument
  rows,               \* the Requests sheet: status, resultUrl and error of each row
  requests,           \* main: the row indices getPendingRequests returned
  cur,                \* main: position of the for loop in requests
  request,            \* main: the loop variable
  glossary,           \* extractedData.glossary, filled in place by translateGlossary
  chunkIdx,           \* translateAllBatches: number of the next chunk of the batch
  translatedChunks,   \* translateAllBatches: the replies of the batch so far
  inflight,           \* translation calls sent and not yet answered
  error,              \* message of the error thrown, "" when there is none
  delivery,           \* processRequest: deliveryMethod and the document handed over
  log,                \* calls the job made to its collaborators, in order
  account,            \* documents the job's import has inserted in the account store
  runs                \* two runs of main on one queue: position and locals of each

(* written only by the import of a job and by concurrent runs *)
otherVars == <<account, runs>>

runVars == <<runOnce, rows, requests, cur, request, glossary, chunkIdx,
             translatedChunks, inflight, error, delivery, log, otherVars>>

vars == <<pc, store, targetLang, encoder, extractedData, translatedBatches,
          batchIdx, merged, again, validation, clock, settings, limit, runVars>>

----------------------------------------------------------------------------
(* Bounds *)

(* most nodes in the metadataSet of a canvas *)
MaxNodes == 2

----------------------------------------------------------------------------
(* Strings *)

Null == <<"null">>
Empty == <<>>

Langs == {"ko", "ja", "en"}

Has(r, k) == k \in DOMAIN r

Truthy(v) == v # Empty /\ v # Null

SetField(r, k, v) == [x \in DOMAIN r \cup {k} |-> IF x = k THEN v ELSE r[x]]

(* regular expression 27..40 of detectLanguageInstruction that matches the
   phrase, 0 when the atom is no directive phrase *)
DirectiveRegex(atom) ==
  CASE atom = "hangugeo-ro jakseong" -> 1
    [] atom = "nihongo-de kaku" -> 5
    [] atom = "write in korean" -> 7
    [] atom = "write in japanese" -> 8
    [] atom = "write in english" -> 9
    [] atom = "Write in English" -> 9
    [] OTHER -> 0

DirectiveLang(atom) ==
  CASE DirectiveRegex(atom) \in {1, 7} -> "ko"
    [] DirectiveRegex(atom) \in {5, 8} -> "ja"
    [] OTHER -> "en"

RefTokens == {"{{var_Aa}}", "{{var_aa}}", "{{var_a_a}}", "{{var_Hn}}"}

(* the characters between "{{var_" and "}}" *)
RefName(atom) ==
  CASE atom = "{{var_Aa}}" -> <<"A", "a">>
    [] atom = "{{var_aa}}" -> <<"a", "a">>
    [] atom = "{{var_a_a}}" -> <<"a", "_", "a">>
    [] atom = "{{var_Hn}}" -> <<"Hn">>

(* number of [a-zA-Z] characters of the atom *)
Letters(atom) ==
  CASE atom \in {"a", "A"} -> 1
    [] atom \in {"0", " ", "_", "Hn", "Kn"} -> 0
    [] atom \in {"hangugeo-ro jakseong", "nihongo-de kaku"} -> 0
    [] atom = "write in korean" -> 13
    [] atom = "write in japanese" -> 15
    [] atom \in {"write in english", "Write in English"} -> 14
    [] atom \in {"{{var_Aa}}", "{{var_aa}}"} -> 5
    [] atom = "{{var_a_a}}" -> 5
    [] atom = "{{var_Hn}}" -> 3
    [] atom \in {"P301", "P2001", "P2801"} -> 1000
    [] OTHER -> 0

(* number of characters left after removing whitespace, digits, punctuation *)
Counted(atom) ==
  CASE atom \in {"Hn", "Kn"} -> 1
    [] atom \in {"hangugeo-ro jakseong", "nihongo-de kaku"} -> 6
    [] atom = "{{var_Hn}}" -> 4
    [] OTHER -> Letters(atom)

HasHangul(atom) == atom \in {"Hn", "hangugeo-ro jakseong", "{{var_Hn}}"}

HasKana(atom) == atom \in {"Kn", "nihongo-de kaku"}

IsAscii(atom) == ~HasHangul(atom) /\ ~HasKana(atom)

(* tokens the gpt-4o encoding yields for the atom *)
AtomTokens(atom) ==
  CASE atom = "P301" -> 301
    [] atom = "P2001" -> 2001
    [] atom = "P2801" -> 2801
    [] atom \in RefTokens -> 4
    [] DirectiveRegex(atom) # 0 -> 3
    [] OTHER -> 1

RECURSIVE SumOver(_, _)
SumOver(text, i) ==
  IF i > Len(text) THEN [letters |-> 0, counted |-> 0, tokens |-> 0]
  ELSE LET r == SumOver(text, i + 1)
       IN [letters |-> r.letters + Letters(text[i]),
           counted |-> r.counted + Counted(text[i]),
           tokens |-> r.tokens + AtomTokens(text[i])]

Range(s) == {s[i] : i \in 1..Len(s)}

(* String.prototype.includes *)
Includes(s, t) ==
  \E i \in 0..(Len(s) - Len(t)) : \A j \in 1..Len(t) : s[i + j] = t[j]

LowerAtom(atom) ==
  CASE atom = "A" -> "a"
    [] atom = "Write in English" -> "write in english"
    [] atom = "{{var_Aa}}" -> "{{var_aa}}"
    [] OTHER -> atom

(* String.prototype.toLowerCase *)
ToLowerCase(s) == [i \in 1..Len(s) |-> LowerAtom(s[i])]

(* s.replace(/\s+/g, '_') *)
RECURSIVE ReplaceWhitespace(_)
ReplaceWhitespace(s) ==
  IF s = <<>> THEN <<>>
  ELSE IF Head(s) = " "
       THEN IF Len(s) > 1 /\ s[2] = " "
            THEN ReplaceWhitespace(Tail(s))
            ELSE <<"_">> \o ReplaceWhitespace(Tail(s))
       ELSE <<Head(s)>> \o ReplaceWhitespace(Tail(s))

(* text.replace(pattern, replacement) with a string pattern: first occurrence *)
RECURSIVE ReplaceFirst(_, _, _)
ReplaceFirst(text, pattern, replacement) ==
  IF text = <<>> THEN <<>>
  ELSE IF Head(text) = pattern THEN <<replacement>> \o Tail(text)
       ELSE <<Head(text)>> \o ReplaceFirst(Tail(text), pattern, replacement)

----------------------------------------------------------------------------
(* extract.js *)

(* isEnglishText comparing with >= and without the test totalChars > 0 *)
isEnglishTextNoGuard(text) ==
  IF ~Truthy(text) THEN FALSE
  ELSE LET n == SumOver(text, 1)
       IN 10 * n.letters >= 7 * n.counted

isEnglishText(text) ==
  IF ~Truthy(text) THEN FALSE
  ELSE LET n == SumOver(text, 1)
       IN n.counted > 0 /\ 10 * n.letters > 7 * n.counted

Min(S) == CHOOSE x \in S : \A y \in S : x <= y

detectLanguageInstruction(text) ==
  IF ~Truthy(text) THEN [found |-> FALSE]
  ELSE LET hits == {i \in 1..Len(text) : DirectiveRegex(text[i]) # 0}
       IN IF hits = {} THEN [found |-> FALSE]
          ELSE LET first == Min({DirectiveRegex(text[i]) : i \in hits})
                   at == Min({i \in hits : DirectiveRegex(text[i]) = first})
               IN [found |-> TRUE, lang |-> DirectiveLang(text[at]),
                   pattern |-> text[at]]

UidOrder == <<"u1", "u2", "u3", "u4", "u5", "u6", "u7", "u8", "u9", "u10", "u11", "u12">>

(* Object.entries(canvas.metadataSet): the keys in insertion order *)
Keys(metadataSet) == SelectSeq(UidOrder, LAMBDA u : u \in DOMAIN metadataSet)

(* the value is truthy in JavaScript; arrays and objects always are *)
FieldTruthy(k, v) ==
  CASE k \in {"entries", "images", "advancedSettings", "languageInstruction"} -> TRUE
    [] k = "initialValueIsEnglish" -> v
    [] OTHER -> Truthy(v)

Get(r, k) == IF Has(r, k) THEN r[k] ELSE Empty

OrNull(r, k) == IF Has(r, k) /\ Truthy(r[k]) THEN r[k] ELSE Null

(* copy field k of meta to node when it is truthy *)
CopyIf(node, meta, k) ==
  IF Has(meta, k) /\ FieldTruthy(k, meta[k]) THEN SetField(node, k, meta[k]) ELSE node

RECURSIVE CopyAll(_, _, _)
CopyAll(node, meta, ks) ==
  IF ks = <<>> THEN node ELSE CopyAll(CopyIf(node, meta, Head(ks)), meta, Tail(ks))

(* names of the character registry, extract.js 88-100 *)
CharacterNames(metadataSet) ==
  {metadataSet[u].name : u \in {v \in DOMAIN metadataSet :
      metadataSet[v].type = "character" /\ Has(metadataSet[v], "name")
      /\ Truthy(metadataSet[v].name)}}

ImageExplains(images) ==
  SelectSeq([i \in 1..Len(images) |-> [explain |-> OrNull(images[i], "explain")]],
            LAMBDA img : Truthy(img.explain))

(* the switch of extract.js 187-274: the projection and its batch *)
Project(uid, meta, names) ==
  LET node == [uid |-> uid, type |-> meta.type,
               name |-> OrNull(meta, "name"), title |-> OrNull(meta, "title")]
      t == meta.type
  IN CASE t = "character" ->
            [node |-> CopyAll(node, meta, <<"text">>), batch |-> "characters"]
       [] t = "story" ->
            [node |-> CopyAll(node, meta, <<"coreContext", "prologue",
                         "prologueGuide", "text", "advancedSettings">>),
             batch |-> "storyCore"]
       [] t = "text" ->
            [node |-> CopyAll(node, meta, <<"text">>),
             batch |-> IF \E n \in names :
                            \/ (Has(meta, "name") /\ Includes(meta.name, n))
                            \/ (Has(meta, "title") /\ Includes(meta.title, n))
                       THEN "characterText" ELSE "content"]
       [] t = "updateRule" ->
            [node |-> IF Has(meta, "text") /\ Truthy(meta.text)
                      THEN LET langInstr == detectLanguageInstruction(meta.text)
                               n1 == SetField(node, "text", meta.text)
                           IN IF langInstr.found
                              THEN SetField(n1, "languageInstruction", langInstr)
                              ELSE n1
                      ELSE node,
             batch |-> "content"]
       [] t = "variable" ->
            IF Has(meta, "variableName") /\ Truthy(meta.variableName)
            THEN [node |-> LET n1 == SetField(node, "variableName", meta.variableName)
                           IN IF Has(meta, "initialValue")
                                 /\ Truthy(SelectSeq(meta.initialValue, LAMBDA c : c # " "))
                              THEN SetField(SetField(n1, "initialValue", meta.initialValue),
                                     "initialValueIsEnglish", isEnglishText(meta.initialValue))
                              ELSE n1,
                  batch |-> "variables"]
            ELSE [node |-> node, batch |-> "none"]
       [] t = "user" ->
            [node |-> CopyAll(node, meta, <<"text">>), batch |-> "system"]
       [] t = "lorebook" ->
            [node |-> CopyAll(node, meta, <<"entries">>), batch |-> "content"]
       [] t = "achievement" ->
            [node |-> CopyAll(node, meta, <<"achievementName", "description">>),
             batch |-> "system"]
       [] t = "statusView" ->
            [node |-> CopyAll(node, meta, <<"statusTitle", "htmlContent">>),
             batch |-> "system"]
       [] t = "image" ->
            IF Has(meta, "images")
            THEN LET imgs == ImageExplains(meta.images)
                 IN [node |-> SetField(node, "images", imgs),
                     batch |-> IF Len(imgs) > 0 THEN "content" ELSE "none"]
            ELSE [node |-> node, batch |-> "none"]
       [] OTHER -> [node |-> node, batch |-> "none"]

hasContent(node) ==
  \E k \in DOMAIN node \ {"uid", "type", "name", "title"} : FieldTruthy(k, node[k])

(* the batches taken in the order of their names *)
batchOrderByName ==
  <<"characterText", "characters", "content", "storyCore", "system", "variables">>

batchOrder == <<"storyCore", "variables", "characters", "characterText", "content", "system">>

(* BatchOf with the nodes of no batch falling through to the system batch *)
RECURSIVE BatchOfFallthrough(_, _, _)
BatchOfFallthrough(metadataSet, b, uids) ==
  IF uids = <<>> THEN <<>>
  ELSE LET p == Project(Head(uids), metadataSet[Head(uids)], CharacterNames(metadataSet))
           rest == BatchOfFallthrough(metadataSet, b, Tail(uids))
       IN IF (p.batch = b \/ (p.batch = "none" /\ b = "system"))
             /\ (hasContent(p.node) \/ Truthy(p.node.name) \/ Truthy(p.node.title))
          THEN <<p.node>> \o rest
          ELSE rest

(* the nodes pushed to one batch, in metadataSet order *)
RECURSIVE BatchOf(_, _, _)
BatchOf(metadataSet, b, uids) ==
  IF uids = <<>> THEN <<>>
  ELSE LET p == Project(Head(uids), metadataSet[Head(uids)], CharacterNames(metadataSet))
           rest == BatchOf(metadataSet, b, Tail(uids))
       IN IF p.batch = b /\ (hasContent(p.node) \/ Truthy(p.node.name) \/ Truthy(p.node.title))
          THEN <<p.node>> \o rest
          ELSE rest

(* number of characters (UTF-16 code units) of the atom; a passage has 3000 *)
Chars(atom) ==
  CASE atom \in {"P301", "P2001", "P2801"} -> 3000
    [] atom = "hangugeo-ro jakseong" -> 6
    [] atom = "nihongo-de kaku" -> 6
    [] atom = "write in korean" -> 15
    [] atom = "write in japanese" -> 17
    [] atom \in {"write in english", "Write in English"} -> 16
    [] atom \in {"{{var_Aa}}", "{{var_aa}}", "{{var_Hn}}"} -> 10
    [] atom = "{{var_a_a}}" -> 11
    [] OTHER -> 1

(* String.prototype.length *)
RECURSIVE TextLen(_)
TextLen(text) == IF text = <<>> THEN 0 ELSE Chars(Head(text)) + TextLen(Tail(text))

(* text.substring(0, n): the atoms that fit whole, and how many characters
   of the atom after them *)
Substring(text, n) ==
  LET k == CHOOSE j \in 0..Len(text) :
             /\ TextLen(SubSeq(text, 1, j)) <= n
             /\ (j < Len(text) => TextLen(SubSeq(text, 1, j + 1)) > n)
  IN [kept |-> SubSeq(text, 1, k),
      cut |-> IF k < Len(text) THEN n - TextLen(SubSeq(text, 1, k)) ELSE 0]

SUMMARY_CHARS == 500

(* the coreContext of the first story node that has one, extract.js 79-80 *)
FirstCoreContext(metadataSet) ==
  LET uids == SelectSeq(Keys(metadataSet),
                LAMBDA u : metadataSet[u].type = "story"
                           /\ Has(metadataSet[u], "coreContext")
                           /\ Truthy(metadataSet[u].coreContext))
  IN IF uids = <<>> THEN Empty ELSE metadataSet[uids[1]].coreContext

(* extract.js 78-85: substring(0, 500) followed by '...' when longer *)
StorySummary(metadataSet) ==
  LET coreContext == FirstCoreContext(metadataSet)
      head == Substring(coreContext, SUMMARY_CHARS)
  IN [kept |-> head.kept, cut |-> head.cut,
      ellipsis |-> IF TextLen(coreContext) > SUMMARY_CHARS THEN <<".", ".", ".">>
                   ELSE Empty]

extractCanvas(canvas) ==
  [context |-> [meta |-> [sourceLang |-> canvas.canvas.canvasLanguage,
                          nodeCount |-> Cardinality(DOMAIN canvas.metadataSet)],
                translationContext |->
                  [storySummary |-> StorySummary(canvas.metadataSet)],
                tagCategorization |-> canvas.canvas.tagCategorization],
   batches |-> [b \in Range(batchOrder) |->
                  BatchOf(canvas.metadataSet, b, Keys(canvas.metadataSet))]]

----------------------------------------------------------------------------
(* translate.js: what the translation capability may return for one item *)

TextFields == {"name", "title", "text", "variableName", "initialValue",
               "coreContext", "prologue", "prologueGuide", "statusTitle",
               "htmlContent", "achievementName", "description"}

LangChar(lang) == CASE lang = "ko" -> "Hn" [] lang = "ja" -> "Kn" [] OTHER -> "a"

(* a rendering of the text in the target language; punctuation, {{var_*}}
   tokens and directive phrases are left as they are, digits are left as
   they are or spelled out in words *)
TrText(text, lang, spell) ==
  IF text = Null THEN Null
  ELSE [i \in 1..Len(text) |->
          IF text[i] \in {"a", "A", "Hn", "Kn"} \/ (spell /\ text[i] = "0")
          THEN LangChar(lang) ELSE text[i]]

TrEntry(e, lang) ==
  [k \in DOMAIN e |-> IF k \in {"key", "text"} THEN TrText(e[k], lang, FALSE) ELSE e[k]]

TrImage(img, lang) ==
  [k \in DOMAIN img |-> IF k = "explain" THEN TrText(img[k], lang, FALSE) ELSE img[k]]

TrItem(item, lang, spell) ==
  [k \in DOMAIN item |->
     CASE k \in TextFields -> TrText(item[k], lang, spell)
       [] k = "entries" -> [i \in 1..Len(item[k]) |-> TrEntry(item[k][i], lang)]
       [] k = "images" -> [i \in 1..Len(item[k]) |-> TrImage(item[k][i], lang)]
       [] OTHER -> item[k]]

Without(r, ks) == [k \in DOMAIN r \ ks |-> r[k]]

(* the item with the last of its lorebook entries left out *)
ShortEntries(item) ==
  IF Has(item, "entries") /\ Len(item.entries) > 1
  THEN SetField(item, "entries", SubSeq(item.entries, 1, Len(item.entries) - 1))
  ELSE item

ReplyModes == {"translate", "spell", "echo", "omit", "strip", "short"}

(* the items returned for one item of the chunk that was sent *)
ReplyFor(item, mode, lang) ==
  CASE mode = "translate" -> <<TrItem(item, lang, FALSE)>>
    [] mode = "spell" -> <<TrItem(item, lang, TRUE)>>
    [] mode = "echo" -> <<item>>
    [] mode = "short" -> <<ShortEntries(TrItem(item, lang, FALSE))>>
    [] mode = "strip" ->
         <<Without(TrItem(item, lang, FALSE),
                   {"initialValueIsEnglish", "languageInstruction"})>>
    [] OTHER -> <<>>

RECURSIVE ReplyOf(_, _, _)
ReplyOf(chunk, modes, lang) ==
  IF chunk = <<>> THEN <<>>
  ELSE ReplyFor(Head(chunk), modes[Head(chunk).uid], lang)
         \o ReplyOf(Tail(chunk), modes, lang)

----------------------------------------------------------------------------
(* merge.js *)

LANG_INSTRUCTION_MAP ==
  [ko |-> "hangugeo-ro jakseong", ja |-> "nihongo-de kaku", en |-> "Write in English"]

(* transformLanguageInstruction without its early return for English *)
transformAlways(text, langInstr, lang) ==
  IF ~Truthy(text) \/ ~langInstr.found THEN text
  ELSE IF lang \notin DOMAIN LANG_INSTRUCTION_MAP THEN text
  ELSE ReplaceFirst(text, langInstr.pattern, LANG_INSTRUCTION_MAP[lang])

transformLanguageInstruction(text, langInstr, lang) ==
  IF ~Truthy(text) \/ ~langInstr.found THEN text
  ELSE IF langInstr.lang = "en" THEN text
  ELSE IF lang \notin DOMAIN LANG_INSTRUCTION_MAP THEN text
  ELSE ReplaceFirst(text, langInstr.pattern, LANG_INSTRUCTION_MAP[lang])

(* const canvas = originalCanvas: the same object *)
NoClone(st, ref) == [store |-> st, ref |-> ref]

(* JSON.parse(JSON.stringify(originalCanvas)): a new object in the store *)
DeepClone(st, ref) == [store |-> Append(st, st[ref]), ref |-> Len(st) + 1]

RECURSIVE Flatten(_, _)
Flatten(batches, order) ==
  IF order = <<>> THEN <<>>
  ELSE (IF Head(order) \in DOMAIN batches THEN batches[Head(order)] ELSE <<>>)
         \o Flatten(batches, Tail(order))

(* merge.js 56-67: the last item of each uid *)
TranslationMap(batches) ==
  LET all == Flatten(batches, batchOrder)
      uids == {all[i].uid : i \in 1..Len(all)}
  IN [u \in uids |->
        all[CHOOSE i \in 1..Len(all) :
              all[i].uid = u /\ \A j \in (i + 1)..Len(all) : all[j].uid # u]]

OverwriteIf(meta, translated, k) ==
  IF Has(translated, k) /\ Truthy(translated[k])
  THEN SetField(meta, k, translated[k]) ELSE meta

RECURSIVE OverwriteAll(_, _, _)
OverwriteAll(meta, translated, ks) ==
  IF ks = <<>> THEN meta
  ELSE OverwriteAll(OverwriteIf(meta, translated, Head(ks)), translated, Tail(ks))

MergeText(meta, translated, lang) ==
  IF Has(translated, "text")
  THEN SetField(meta, "text",
         IF Has(translated, "languageInstruction")
         THEN transformLanguageInstruction(translated.text,
                translated.languageInstruction, lang)
         ELSE translated.text)
  ELSE meta

(* MergeInitialValue without the test of initialValueIsEnglish *)
MergeInitialValueAlways(meta, translated) ==
  IF Has(translated, "initialValue")
  THEN SetField(meta, "initialValue", translated.initialValue)
  ELSE meta

MergeInitialValue(meta, translated) ==
  IF Has(translated, "initialValue")
     /\ ~(Has(translated, "initialValueIsEnglish") /\ translated.initialValueIsEnglish)
  THEN SetField(meta, "initialValue", translated.initialValue)
  ELSE meta

(* MergeEntries pushing the translated entries after the existing ones *)
MergeEntriesAppend(meta, translated) ==
  IF Has(translated, "entries") /\ Has(meta, "entries")
  THEN SetField(meta, "entries", meta.entries \o translated.entries)
  ELSE meta

MergeEntries(meta, translated) ==
  IF Has(translated, "entries") /\ Has(meta, "entries")
  THEN SetField(meta, "entries", translated.entries)
  ELSE meta

MergeImages(meta, translated) ==
  IF Has(translated, "images") /\ Has(meta, "images")
  THEN SetField(meta, "images",
         [i \in 1..Len(meta.images) |->
            IF i <= Len(translated.images) /\ Has(translated.images[i], "explain")
               /\ Truthy(translated.images[i].explain)
            THEN SetField(meta.images[i], "explain", translated.images[i].explain)
            ELSE meta.images[i]])
  ELSE meta

(* merge.js 80-121 *)
ApplyTranslation(meta, translated, lang) ==
  LET m1 == OverwriteAll(meta, translated, <<"name", "title">>)
      m2 == MergeText(m1, translated, lang)
      m3 == OverwriteIf(m2, translated, "variableName")
      m4 == MergeInitialValue(m3, translated)
      m5 == OverwriteAll(m4, translated, <<"coreContext", "prologue", "prologueGuide",
              "statusTitle", "htmlContent", "achievementName", "description">>)
      m6 == MergeEntries(m5, translated)
  IN MergeImages(m6, translated)

(* MergeLoop counting a node without a translation as applied *)
RECURSIVE MergeLoopMiscount(_, _, _, _)
MergeLoopMiscount(acc, uids, map, lang) ==
  IF uids = <<>> THEN acc
  ELSE LET uid == Head(uids)
       IN IF uid \notin DOMAIN map
          THEN MergeLoopMiscount([acc EXCEPT !.applied = @ + 1], Tail(uids), map, lang)
          ELSE MergeLoopMiscount([acc EXCEPT
                            !.metadataSet[uid] = ApplyTranslation(@, map[uid], lang),
                            !.applied = @ + 1],
                         Tail(uids), map, lang)

(* merge.js 69-124: the loop over the entries of the clone's metadataSet *)
RECURSIVE MergeLoop(_, _, _, _)
MergeLoop(acc, uids, map, lang) ==
  IF uids = <<>> THEN acc
  ELSE LET uid == Head(uids)
       IN IF uid \notin DOMAIN map
          THEN MergeLoop([acc EXCEPT !.skipped = @ + 1], Tail(uids), map, lang)
          ELSE MergeLoop([acc EXCEPT
                            !.metadataSet[uid] = ApplyTranslation(@, map[uid], lang),
                            !.applied = @ + 1],
                         Tail(uids), map, lang)

(* the value of the clone and the stats when mergeTranslations returns *)
mergeTranslations(canvas, batches, context, lang, now) ==
  LET r == MergeLoop([metadataSet |-> canvas.metadataSet, applied |-> 0, skipped |-> 0],
                     Keys(canvas.metadataSet), TranslationMap(batches), lang)
      c1 == IF Truthy(context.tagCategorization)
            THEN SetField(canvas.canvas, "tagCategorization", context.tagCategorization)
            ELSE canvas.canvas
      c2 == SetField(c1, "canvasLanguage", lang)
      d1 == SetField(SetField(canvas, "metadataSet", r.metadataSet), "canvas", c2)
      d2 == SetField(d1, "exportedAt", now)
      d3 == SetField(d2, "translatedFrom", context.meta.sourceLang)
  IN [canvas |-> SetField(d3, "translatedTo", lang),
      stats |-> [applied |-> r.applied, skipped |-> r.skipped,
                 sourceLang |-> context.meta.sourceLang, targetLang |-> lang]]

----------------------------------------------------------------------------
(* validate.js *)

TOKEN_LIMITS ==
  [characterText |-> 30000, textNode |-> 300, imageExplain |-> 300,
   lorebookEntry |-> 300, prologueMessage |-> 700, prologueGuide |-> 300,
   updateRule |-> 400, detailedDescription |-> 30000]

(* LANG_PATTERNS[sourceLang]?.test(text) *)
hasSourceLanguage(text, sourceLang) ==
  IF ~Truthy(text) THEN FALSE
  ELSE CASE sourceLang = "ko" -> \E i \in 1..Len(text) : HasHangul(text[i])
         [] sourceLang = "ja" -> \E i \in 1..Len(text) : HasKana(text[i])
         [] sourceLang = "en" -> \A i \in 1..Len(text) : IsAscii(text[i])
         [] OTHER -> FALSE

countTokens(text, enc) ==
  IF ~Truthy(text) \/ ~enc THEN 0 ELSE SumOver(text, 1).tokens

Flag(r, k) == Has(r, k) /\ r[k]

(* getCoreContextLimit without the else-if branch for a single cue *)
getCoreContextLimitBothCues(advancedSettings) ==
  2000
  + (IF Flag(advancedSettings, "disableDynamicMemory") THEN 800 ELSE 0)
  + (IF Flag(advancedSettings, "disableAutoPlotCompression") THEN 1200 ELSE 0)
  + (IF Flag(advancedSettings, "disableMacroPromptInjections") THEN 1200 ELSE 0)
  + (IF Flag(advancedSettings, "disableDefaultContentPolicy") THEN 800 ELSE 0)
  + (IF Flag(advancedSettings, "disableDefaultSystemInstructions")
        /\ Flag(advancedSettings, "disableNarrationCue")
        /\ Flag(advancedSettings, "disableDialogueCue")
     THEN 1500 ELSE 0)

getCoreContextLimit(advancedSettings) ==
  2000
  + (IF Flag(advancedSettings, "disableDynamicMemory") THEN 800 ELSE 0)
  + (IF Flag(advancedSettings, "disableAutoPlotCompression") THEN 1200 ELSE 0)
  + (IF Flag(advancedSettings, "disableMacroPromptInjections") THEN 1200 ELSE 0)
  + (IF Flag(advancedSettings, "disableDefaultContentPolicy") THEN 800 ELSE 0)
  + (IF Flag(advancedSettings, "disableDefaultSystemInstructions")
     THEN IF Flag(advancedSettings, "disableNarrationCue")
             /\ Flag(advancedSettings, "disableDialogueCue") THEN 1500
          ELSE IF Flag(advancedSettings, "disableNarrationCue")
                  \/ Flag(advancedSettings, "disableDialogueCue") THEN 1000
          ELSE 0
     ELSE 0)

NoSettings == [x \in {} |-> FALSE]

RECURSIVE Concat(_)
Concat(ss) == IF ss = <<>> THEN <<>> ELSE Head(ss) \o Concat(Tail(ss))

fieldsToCheck ==
  <<"text", "name", "title", "variableName", "coreContext", "prologue",
    "prologueGuide", "statusTitle", "achievementName", "description">>

(* validate.js 79-132, the findings of one node *)
UntranslatedOf(uid, meta, sourceLang) ==
  LET flat == SelectSeq(fieldsToCheck,
                LAMBDA f : Has(meta, f) /\ hasSourceLanguage(meta[f], sourceLang))
      imgs == IF Has(meta, "images")
              THEN SelectSeq([i \in 1..Len(meta.images) |-> i],
                     LAMBDA i : Has(meta.images[i], "explain")
                                /\ hasSourceLanguage(meta.images[i].explain, sourceLang))
              ELSE <<>>
      ents == IF Has(meta, "entries")
              THEN Concat([i \in 1..Len(meta.entries) |->
                     [j \in 1..Len(SelectSeq(<<"key", "text">>,
                         LAMBDA f : Has(meta.entries[i], f)
                            /\ hasSourceLanguage(meta.entries[i][f], sourceLang))) |->
                        [uid |-> uid, nodeType |-> "lorebook", index |-> i,
                         field |-> SelectSeq(<<"key", "text">>,
                            LAMBDA f : Has(meta.entries[i], f)
                              /\ hasSourceLanguage(meta.entries[i][f], sourceLang))[j]]]])
              ELSE <<>>
  IN [i \in 1..Len(flat) |->
        [uid |-> uid, nodeType |-> meta.type, index |-> 0, field |-> flat[i]]]
     \o [i \in 1..Len(imgs) |->
        [uid |-> uid, nodeType |-> "image", index |-> imgs[i], field |-> "explain"]]
     \o ents

(* validate.js 135-144 *)
ValidRefs(metadataSet) ==
  {ReplaceWhitespace(metadataSet[u].variableName) :
     u \in {v \in DOMAIN metadataSet : metadataSet[v].type = "variable"
              /\ Has(metadataSet[v], "variableName")
              /\ Truthy(metadataSet[v].variableName)}}

ValidRefsLower(metadataSet) == {ToLowerCase(n) : n \in ValidRefs(metadataSet)}

(* text.match(varRefPattern) || [] *)
MatchRefs(text) ==
  IF ~Truthy(text) THEN <<>> ELSE SelectSeq(text, LAMBDA a : a \in RefTokens)

(* IsInvalidRef without the lower-case fallback *)
IsInvalidRefExact(ref, validRefs, validRefsLower) ==
  RefName(ref) \notin validRefs

IsInvalidRef(ref, validRefs, validRefsLower) ==
  RefName(ref) \notin validRefs /\ ToLowerCase(RefName(ref)) \notin validRefsLower

(* validate.js 147-167, the findings of one node *)
InvalidRefsOf(uid, meta, validRefs, validRefsLower) ==
  LET refs == Concat([i \in 1..4 |->
                MatchRefs(Get(meta, <<"text", "coreContext", "prologue", "prologueGuide">>[i]))])
      bad == SelectSeq(refs, LAMBDA ref : IsInvalidRef(ref, validRefs, validRefsLower))
  IN [i \in 1..Len(bad) |-> [uid |-> uid, nodeType |-> meta.type, ref |-> bad[i]]]

(* validate.js 178-194: the fields with a budget *)
TokenChecks(meta) ==
  LET t == meta.type
      chk(f, l) == IF Has(meta, f) /\ Truthy(meta[f])
                   THEN <<[field |-> f, value |-> meta[f], limit |-> l]>> ELSE <<>>
  IN CASE t = "character" -> chk("text", TOKEN_LIMITS.characterText)
       [] t = "story" ->
            chk("coreContext", getCoreContextLimit(
                  IF Has(meta, "advancedSettings") THEN meta.advancedSettings ELSE NoSettings))
            \o chk("prologue", TOKEN_LIMITS.prologueMessage)
            \o chk("prologueGuide", TOKEN_LIMITS.prologueGuide)
            \o chk("text", TOKEN_LIMITS.detailedDescription)
       [] t = "text" -> chk("text", TOKEN_LIMITS.textNode)
       [] t = "updateRule" -> chk("text", TOKEN_LIMITS.updateRule)
       [] OTHER -> <<>>

OverLimitOf(uid, meta, enc) ==
  LET over == SelectSeq(TokenChecks(meta),
                LAMBDA c : countTokens(c.value, enc) > c.limit)
  IN [i \in 1..Len(over) |->
        [uid |-> uid, nodeType |-> meta.type, field |-> over[i].field,
         tokens |-> countTokens(over[i].value, enc), limit |-> over[i].limit,
         over |-> countTokens(over[i].value, enc) - over[i].limit]]

(* validateCanvas returning after the first check that has findings *)
validateCanvasFirstOnly(canvas, sourceLang, enc) ==
  LET ms == canvas.metadataSet
      uids == Keys(ms)
      untranslated == Concat([i \in 1..Len(uids) |->
                        UntranslatedOf(uids[i], ms[uids[i]], sourceLang)])
      invalidRefs == IF Len(untranslated) > 0 THEN <<>>
                     ELSE Concat([i \in 1..Len(uids) |->
                        InvalidRefsOf(uids[i], ms[uids[i]], ValidRefs(ms), ValidRefsLower(ms))])
      overLimit == IF enc /\ Len(untranslated) = 0 /\ Len(invalidRefs) = 0
                   THEN Concat([i \in 1..Len(uids) |-> OverLimitOf(uids[i], ms[uids[i]], enc)])
                   ELSE <<>>
      errors == (IF Len(untranslated) > 0
                 THEN <<[type |-> "untranslated", items |-> untranslated]>> ELSE <<>>)
                \o (IF Len(invalidRefs) > 0
                    THEN <<[type |-> "invalid_refs", items |-> invalidRefs]>> ELSE <<>>)
                \o (IF Len(overLimit) > 0
                    THEN <<[type |-> "over_limit", items |-> overLimit]>> ELSE <<>>)
  IN [passed |-> Len(errors) = 0,
      errors |-> errors,
      stats |-> [untranslatedCount |-> Len(untranslated),
                 invalidRefsCount |-> Len(invalidRefs),
                 overLimitCount |-> Len(overLimit),
                 totalNodes |-> Cardinality(DOMAIN ms),
                 variableCount |-> Cardinality(ValidRefs(ms))]]

validateCanvas(canvas, sourceLang, enc) ==
  LET ms == canvas.metadataSet
      uids == Keys(ms)
      untranslated == Concat([i \in 1..Len(uids) |->
                        UntranslatedOf(uids[i], ms[uids[i]], sourceLang)])
      invalidRefs == Concat([i \in 1..Len(uids) |->
                        InvalidRefsOf(uids[i], ms[uids[i]], ValidRefs(ms), ValidRefsLower(ms))])
      overLimit == IF enc
                   THEN Concat([i \in 1..Len(uids) |-> OverLimitOf(uids[i], ms[uids[i]], enc)])
                   ELSE <<>>
      errors == (IF Len(untranslated) > 0
                 THEN <<[type |-> "untranslated", items |-> untranslated]>> ELSE <<>>)
                \o (IF Len(invalidRefs) > 0
                    THEN <<[type |-> "invalid_refs", items |-> invalidRefs]>> ELSE <<>>)
                \o (IF Len(overLimit) > 0
                    THEN <<[type |-> "over_limit", items |-> overLimit]>> ELSE <<>>)
  IN [passed |-> Len(errors) = 0,
      errors |-> errors,
      stats |-> [untranslatedCount |-> Len(untranslated),
                 invalidRefsCount |-> Len(invalidRefs),
                 overLimitCount |-> Len(overLimit),
                 totalNodes |-> Cardinality(DOMAIN ms),
                 variableCount |-> Cardinality(ValidRefs(ms))]]

----------------------------------------------------------------------------
(* Documents *)

Word(c) == <<c, c>>

(* node metadata of a canvas written in the language whose character is c *)
NodeTemplates(c) ==
  << [type |-> "story", name |-> Word(c), coreContext |-> <<c, "{{var_Aa}}">>,
      prologue |-> <<c, "{{var_a_a}}">>],
     [type |-> "story", coreContext |-> <<"P2001">>],
     [type |-> "story", title |-> Word(c), coreContext |-> <<c, "P2001">>,
      advancedSettings |-> [disableDynamicMemory |-> TRUE]],
     [type |-> "character", name |-> <<c>>, text |-> Word(c)],
     [type |-> "text", name |-> <<c, " ", c>>, text |-> <<c, "P301", "{{var_a_a}}">>],
     [type |-> "updateRule", text |-> <<c, " ", "write in english">>],
     [type |-> "updateRule", name |-> Word(c),
      text |-> <<"hangugeo-ro jakseong", " ", "Write in English">>],
     [type |-> "variable", variableName |-> <<"A", "a">>, initialValue |-> <<"0">>],
     [type |-> "variable", variableName |-> <<c, " ", c>>, initialValue |-> <<"a", "a">>],
     [type |-> "statusView", htmlContent |-> Word(c)],
     [type |-> "achievement", achievementName |-> Word(c), description |-> Word(c)],
     [type |-> "user", text |-> Word(c)],
     [type |-> "trigger", name |-> Word(c), text |-> Word(c)],
     [type |-> "lorebook", name |-> Word(c),
      entries |-> <<[key |-> Word(c), text |-> Word(c), patterns |-> <<"p">>],
                    [key |-> <<c>>, text |-> <<c>>, patterns |-> <<"p">>]>>],
     [type |-> "image",
      images |-> <<[url |-> <<"url">>, explain |-> Word(c)], [url |-> <<"url">>]>>] >>

NumTemplates == Len(NodeTemplates("a"))

RECURSIVE SetToSeq(_)
SetToSeq(S) == IF S = {} THEN <<>> ELSE <<Min(S)>> \o SetToSeq(S \ {Min(S)})

(* the canvas whose nodes are the templates picked, in the order of the list *)
CanvasOf(lang, picked) ==
  LET ts == SetToSeq(picked)
  IN [canvas |-> [canvasLanguage |-> lang, tagCategorization |-> <<"categories">>],
      metadataSet |-> [u \in {UidOrder[i] : i \in 1..Len(ts)} |->
                         NodeTemplates(LangChar(lang))[
                            ts[CHOOSE i \in 1..Len(ts) : UidOrder[i] = u]]]]

Docs ==
  {CanvasOf(lang, picked) : lang \in Langs,
     picked \in {S \in SUBSET (1..NumTemplates) : Cardinality(S) \in 1..MaxNodes}}

----------------------------------------------------------------------------
(* main.js processRequest: extract, translate, merge, validate *)

None == [none |-> TRUE]

(* the variables of main before a run *)
RunIdle ==
  /\ runOnce = FALSE
  /\ rows = <<>>
  /\ requests = <<>>
  /\ cur = 0
  /\ request = None
  /\ glossary = None
  /\ chunkIdx = 1
  /\ translatedChunks = <<>>
  /\ inflight = {}
  /\ error = ""
  /\ delivery = None
  /\ log = <<>>
  /\ account = None
  /\ runs = <<>>

NoBatches == [b \in Range(batchOrder) |-> <<>>]

Init ==
  /\ pc = "extract"
  /\ store \in {<<d>> : d \in Docs}
  /\ targetLang \in Langs
  /\ encoder \in BOOLEAN
  /\ extractedData = None
  /\ translatedBatches = NoBatches
  /\ batchIdx = 1
  /\ merged = None
  /\ again = None
  /\ validation = None
  /\ clock = 0
  /\ settings = NoSettings
  /\ limit = 0
  /\ RunIdle

(* main.js 52: canvas.canvas?.canvasLanguage || 'ko' *)
SourceLang(canvas) ==
  IF Has(canvas.canvas, "canvasLanguage") /\ canvas.canvas.canvasLanguage # ""
  THEN canvas.canvas.canvasLanguage ELSE "ko"

Extract ==
  /\ pc = "extract"
  /\ extractedData' = extractCanvas(store[1])
  /\ pc' = "translate"
  /\ UNCHANGED <<store, targetLang, encoder, translatedBatches, batchIdx, merged,
                 again, validation, clock, settings, limit>>
  /\ UNCHANGED runVars

(* translate.js 253-257: batches that are empty are passed over without a call *)
NextBatch(i) ==
  LET S == {j \in i..Len(batchOrder) : extractedData.batches[batchOrder[j]] # <<>>}
  IN IF S = {} THEN Len(batchOrder) + 1 ELSE Min(S)

(* one call of translateBatch that returns an array *)
TranslateChunk ==
  /\ pc = "translate"
  /\ NextBatch(batchIdx) <= Len(batchOrder)
  /\ LET b == batchOrder[NextBatch(batchIdx)]
         chunk == extractedData.batches[b]
     IN \E modes \in [{chunk[i].uid : i \in 1..Len(chunk)} -> ReplyModes] :
          translatedBatches' =
            [translatedBatches EXCEPT ![b] = ReplyOf(chunk, modes, targetLang)]
  /\ batchIdx' = NextBatch(batchIdx) + 1
  /\ UNCHANGED <<pc, store, targetLang, encoder, extractedData, merged, again,
                 validation, clock, settings, limit>>
  /\ UNCHANGED runVars

(* translate.js 127-130: the call throws, translateAllBatches rethrows *)
TranslateFail ==
  /\ pc = "translate"
  /\ NextBatch(batchIdx) <= Len(batchOrder)
  /\ pc' = "failed"
  /\ UNCHANGED <<store, targetLang, encoder, extractedData, translatedBatches,
                 batchIdx, merged, again, validation, clock, settings, limit>>
  /\ UNCHANGED runVars

Merge ==
  /\ pc = "translate"
  /\ NextBatch(batchIdx) > Len(batchOrder)
  /\ LET c == DeepClone(store, 1)
         r == mergeTranslations(c.store[c.ref], translatedBatches,
                                extractedData.context, targetLang, clock)
     IN /\ store' = [c.store EXCEPT ![c.ref] = r.canvas]
        /\ merged' = [ref |-> c.ref, stats |-> r.stats]
  /\ clock' = clock + 1
  /\ pc' = "validate"
  /\ UNCHANGED <<targetLang, encoder, extractedData, translatedBatches, batchIdx,
                 again, validation, settings, limit>>
  /\ UNCHANGED runVars

Validate ==
  /\ pc = "validate"
  /\ validation' = validateCanvas(store[merged.ref], SourceLang(store[1]), encoder)
  /\ pc' = "done"
  /\ UNCHANGED <<store, targetLang, encoder, extractedData, translatedBatches,
                 batchIdx, merged, again, clock, settings, limit>>
  /\ UNCHANGED runVars

Next == Extract \/ TranslateChunk \/ TranslateFail \/ Merge \/ Validate

Spec == Init /\ [][Next]_vars

----------------------------------------------------------------------------
(* Properties of mergeTranslations *)

Merged == pc \in {"validate", "done", "again"}

Original == store[1]

Result == store[merged.ref]

(* the item of each uid that mergeTranslations was handed *)
Handed == TranslationMap(translatedBatches)

(* C1: mergeTranslations never mutates its input: the original canvas
   object is after every step what it was before it; the writes go to the
   clone. *)
C1_InputNotMutated == [][store'[1] = store[1]]_vars

C1_Witness ==
  /\ Merged
  /\ merged.ref # 1
  /\ merged.stats.applied > 0
  /\ Result.metadataSet # Original.metadataSet
  /\ Result.canvas.canvasLanguage # Original.canvas.canvasLanguage

Unmatched == DOMAIN Original.metadataSet \ DOMAIN Handed

(* C2: a node whose uid matches no translated item is, in the merged
   document, field for field the node of the original document, and it is
   counted in stats.skipped, not in stats.applied. *)
C2_UntouchedNodes ==
  Merged =>
    /\ \A u \in Unmatched :
         /\ u \in DOMAIN Result.metadataSet
         /\ DOMAIN Result.metadataSet[u] = DOMAIN Original.metadataSet[u]
         /\ \A k \in DOMAIN Original.metadataSet[u] :
              Result.metadataSet[u][k] = Original.metadataSet[u][k]
    /\ merged.stats.skipped = Cardinality(Unmatched)
    /\ merged.stats.applied = Cardinality(DOMAIN Original.metadataSet \ Unmatched)

C2_Witness ==
  /\ Merged
  /\ Unmatched # {}
  /\ merged.stats.skipped = 1
  /\ merged.stats.applied = 1
  /\ \E u \in DOMAIN Original.metadataSet \ Unmatched :
       Result.metadataSet[u] # Original.metadataSet[u]

(* the variable nodes whose initialValue the extractor flagged as English *)
FlaggedEnglish ==
  {u \in DOMAIN Original.metadataSet :
     \E i \in 1..Len(extractedData.batches.variables) :
        /\ extractedData.batches.variables[i].uid = u
        /\ Flag(extractedData.batches.variables[i], "initialValueIsEnglish")}

(* C3: a variable's initialValue that was flagged English-positive is the
   same in the merged node as in the original, whatever initialValue the
   translated item (which carries the flag) holds. *)
C3_EnglishDefaultKept ==
  Merged =>
    \A u \in FlaggedEnglish :
      (u \in DOMAIN Handed /\ Flag(Handed[u], "initialValueIsEnglish"))
        => Result.metadataSet[u].initialValue = Original.metadataSet[u].initialValue

C3_Witness ==
  /\ Merged
  /\ \E u \in FlaggedEnglish :
       /\ u \in DOMAIN Handed
       /\ Flag(Handed[u], "initialValueIsEnglish")
       /\ Handed[u].initialValue # Original.metadataSet[u].initialValue
       /\ Handed[u].variableName = Result.metadataSet[u].variableName
       /\ Result.metadataSet[u].variableName # Original.metadataSet[u].variableName

(* the items handed to merge whose language instruction is an English one *)
EnglishDirective ==
  {u \in DOMAIN Handed \cap DOMAIN Original.metadataSet :
     /\ Has(Handed[u], "languageInstruction")
     /\ Handed[u].languageInstruction.found
     /\ Handed[u].languageInstruction.lang = "en"
     /\ Has(Handed[u], "text")
     /\ Handed[u].languageInstruction.pattern \in Range(Handed[u].text)}

(* C4: for an item whose detected instruction is English, and every target
   language, the merged text is the text handed to merge: the English
   directive phrase it contains is in the merged text, at the same place. *)
C4_EnglishDirectiveKept ==
  Merged =>
    \A u \in EnglishDirective :
      /\ Result.metadataSet[u].text = Handed[u].text
      /\ \A i \in 1..Len(Handed[u].text) :
           Handed[u].text[i] = Handed[u].languageInstruction.pattern
             => Result.metadataSet[u].text[i] = Handed[u].languageInstruction.pattern

C4_Witness ==
  /\ Merged
  /\ targetLang = "ja"
  /\ \E u \in EnglishDirective :
       /\ Result.metadataSet[u].text # Original.metadataSet[u].text
       /\ Handed[u].languageInstruction.pattern \in Range(Result.metadataSet[u].text)

----------------------------------------------------------------------------
(* mergeTranslations applied a second time *)

(* the clone of the first merge is merged with the same batches *)
MergeAgain ==
  /\ pc = "done"
  /\ LET c == DeepClone(store, merged.ref)
         r == mergeTranslations(c.store[c.ref], translatedBatches,
                                extractedData.context, targetLang, clock)
     IN /\ store' = [c.store EXCEPT ![c.ref] = r.canvas]
        /\ again' = [ref |-> c.ref, stats |-> r.stats, how |-> "twice"]
  /\ clock' = clock + 1
  /\ pc' = "again"
  /\ UNCHANGED <<targetLang, encoder, extractedData, translatedBatches, batchIdx,
                 merged, validation, settings, limit>>
  /\ UNCHANGED runVars

(* the original is merged with batches that hold every item twice *)
MergeDoubled ==
  /\ pc = "done"
  /\ LET c == DeepClone(store, 1)
         r == mergeTranslations(c.store[c.ref],
                [b \in DOMAIN translatedBatches |->
                   translatedBatches[b] \o translatedBatches[b]],
                extractedData.context, targetLang, clock)
     IN /\ store' = [c.store EXCEPT ![c.ref] = r.canvas]
        /\ again' = [ref |-> c.ref, stats |-> r.stats, how |-> "doubled"]
  /\ clock' = clock + 1
  /\ pc' = "again"
  /\ UNCHANGED <<targetLang, encoder, extractedData, translatedBatches, batchIdx,
                 merged, validation, settings, limit>>
  /\ UNCHANGED runVars

NextIdem == Next \/ MergeAgain \/ MergeDoubled

SpecIdem == Init /\ [][NextIdem]_vars

(* C5: merging the same batches into the result of the first merge, or
   merging batches that hold each item twice, gives the node contents, the
   canvasLanguage and every other field but exportedAt of merging once. *)
C5_MergeIdempotent ==
  pc = "again" =>
    /\ store[again.ref].metadataSet = Result.metadataSet
    /\ store[again.ref].canvas.canvasLanguage = Result.canvas.canvasLanguage
    /\ \A k \in DOMAIN Result \ {"exportedAt"} : store[again.ref][k] = Result[k]
    /\ DOMAIN store[again.ref] = DOMAIN Result

C5_Witness ==
  /\ pc = "again"
  /\ again.how = "twice"
  /\ merged.stats.applied = 2
  /\ \E u \in DOMAIN Original.metadataSet :
       /\ Has(Original.metadataSet[u], "entries")
       /\ Result.metadataSet[u].entries # Original.metadataSet[u].entries
  /\ store[again.ref].exportedAt # Result.exportedAt

----------------------------------------------------------------------------
(* Properties of validateCanvas *)

Errors(type) ==
  SelectSeq(validation.errors, LAMBDA e : e.type = type)

LeakFields ==
  {"name", "title", "text", "variableName", "coreContext", "prologue",
   "prologueGuide", "statusTitle", "htmlContent", "achievementName", "description"}

(* some textual field of the node matches the pattern of the language *)
Leaks(meta, lang) ==
  \/ \E k \in LeakFields \cap DOMAIN meta : hasSourceLanguage(meta[k], lang)
  \/ /\ Has(meta, "images")
     /\ \E i \in 1..Len(meta.images) :
          Has(meta.images[i], "explain") /\ hasSourceLanguage(meta.images[i].explain, lang)
  \/ /\ Has(meta, "entries")
     /\ \E i \in 1..Len(meta.entries) : \E k \in {"key", "text"} :
          Has(meta.entries[i], k) /\ hasSourceLanguage(meta.entries[i][k], lang)

(* C6: if a textual field of the merged document matches the pattern of the
   source language, the report has passed = false and an 'untranslated'
   error with items; if none matches there is no 'untranslated' error. *)
C6_LeakageReported ==
  pc = "done" =>
    LET leak == \E u \in DOMAIN Result.metadataSet :
                   Leaks(Result.metadataSet[u], SourceLang(Original))
    IN /\ leak => /\ ~validation.passed
                  /\ Len(Errors("untranslated")) > 0
                  /\ \A i \in 1..Len(Errors("untranslated")) :
                       Len(Errors("untranslated")[i].items) > 0
       /\ ~leak => Len(Errors("untranslated")) = 0

(* a variable node is named n, compared as written or in lower case *)
Named(metadataSet, n) ==
  \E u \in DOMAIN metadataSet :
    /\ metadataSet[u].type = "variable"
    /\ Has(metadataSet[u], "variableName")
    /\ Truthy(metadataSet[u].variableName)
    /\ \/ ReplaceWhitespace(metadataSet[u].variableName) = n
       \/ ToLowerCase(ReplaceWhitespace(metadataSet[u].variableName)) = ToLowerCase(n)

(* the {{var_*}} tokens of the four scanned fields, with their node *)
TokensIn(metadataSet) ==
  {<<u, t>> \in (DOMAIN metadataSet) \X RefTokens :
     \E k \in {"text", "coreContext", "prologue", "prologueGuide"} :
        Has(metadataSet[u], k) /\ Truthy(metadataSet[u][k])
        /\ t \in Range(metadataSet[u][k])}

Dangling ==
  {p \in TokensIn(Result.metadataSet) : ~Named(Result.metadataSet, RefName(p[2]))}

(* C7: a token {{var_Foo}} of a text, coreContext, prologue or prologueGuide
   field with no variable node named Foo (as written or in lower case) is
   reported in the items of exactly one 'invalid_refs' error; a token that
   names a variable node in either comparison is not reported. *)
C7_ReferenceIntegrity ==
  pc = "done" =>
    /\ Dangling # {} =>
         /\ Len(Errors("invalid_refs")) = 1
         /\ \A p \in Dangling :
              \E i \in 1..Len(Errors("invalid_refs")[1].items) :
                 /\ Errors("invalid_refs")[1].items[i].uid = p[1]
                 /\ Errors("invalid_refs")[1].items[i].ref = p[2]
    /\ \A e \in 1..Len(Errors("invalid_refs")) :
         \A i \in 1..Len(Errors("invalid_refs")[e].items) :
            <<Errors("invalid_refs")[e].items[i].uid,
              Errors("invalid_refs")[e].items[i].ref>> \in Dangling

C7_Witness ==
  /\ pc = "done"
  /\ Dangling # {}
  /\ \E p \in TokensIn(Result.metadataSet) \ Dangling :
       \A u \in DOMAIN Result.metadataSet :
          Has(Result.metadataSet[u], "variableName")
            => ReplaceWhitespace(Result.metadataSet[u].variableName) # RefName(p[2])

(* the variable nodes of the scenario: initialValue is the string "0" *)
ZeroVars ==
  {u \in DOMAIN Original.metadataSet :
     /\ Original.metadataSet[u].type = "variable"
     /\ Has(Original.metadataSet[u], "initialValue")
     /\ Original.metadataSet[u].initialValue = <<"0">>}

(* a Korean document with such a variable, translated to English *)
Scenario ==
  /\ pc # "extract"
  /\ pc # "settings"
  /\ pc # "computed"
  /\ SourceLang(Original) = "ko"
  /\ targetLang = "en"
  /\ ZeroVars # {}

(* C8 as stated: in the scenario the heuristic is positive for "0", the
   extracted item has initialValueIsEnglish = true, and the merged
   initialValue stays "0". *)
C8_ZeroIsEnglish ==
  Scenario =>
    \A u \in ZeroVars :
      /\ \E i \in 1..Len(extractedData.batches.variables) :
           /\ extractedData.batches.variables[i].uid = u
           /\ Flag(extractedData.batches.variables[i], "initialValueIsEnglish")
      /\ Merged => Result.metadataSet[u].initialValue = <<"0">>

(* C8, amended: in the scenario the heuristic is negative for "0" (it has no
   letter), the extracted item has initialValueIsEnglish = false, and the
   merged initialValue is the initialValue of the item handed to merge when
   that item has one and no true flag; it is "0" otherwise. *)
C8_ZeroNotEnglish ==
  Scenario =>
    \A u \in ZeroVars :
      /\ \E i \in 1..Len(extractedData.batches.variables) :
           /\ extractedData.batches.variables[i].uid = u
           /\ Has(extractedData.batches.variables[i], "initialValueIsEnglish")
           /\ ~extractedData.batches.variables[i].initialValueIsEnglish
      /\ Merged =>
           Result.metadataSet[u].initialValue =
             IF /\ u \in DOMAIN Handed
                /\ Has(Handed[u], "initialValue")
                /\ ~Flag(Handed[u], "initialValueIsEnglish")
             THEN Handed[u].initialValue
             ELSE <<"0">>

C8_Witness ==
  /\ Scenario
  /\ Merged
  /\ \E u \in ZeroVars :
       /\ u \in DOMAIN Handed
       /\ Result.metadataSet[u].initialValue = Handed[u].initialValue
       /\ Result.metadataSet[u].initialValue # <<"0">>

ItemsOf(type) ==
  IF Errors(type) = <<>> THEN <<>> ELSE Errors(type)[1].items

(* C10: each of the three checks reports what it finds whatever the other
   two found (the token check when the tokenizer is loaded), and passed is
   true exactly when the three item lists are empty. *)
C10_PassedIffNoFindings ==
  pc = "done" =>
    LET ms == Result.metadataSet
        uids == Keys(ms)
    IN /\ ItemsOf("untranslated") =
            Concat([i \in 1..Len(uids) |->
               UntranslatedOf(uids[i], ms[uids[i]], SourceLang(Original))])
       /\ ItemsOf("invalid_refs") =
            Concat([i \in 1..Len(uids) |->
               InvalidRefsOf(uids[i], ms[uids[i]], ValidRefs(ms), ValidRefsLower(ms))])
       /\ ItemsOf("over_limit") =
            IF encoder
            THEN Concat([i \in 1..Len(uids) |-> OverLimitOf(uids[i], ms[uids[i]], TRUE)])
            ELSE <<>>
       /\ \A t \in {"untranslated", "invalid_refs", "over_limit"} : Len(Errors(t)) <= 1
       /\ validation.passed <=>
            /\ ItemsOf("untranslated") = <<>>
            /\ ItemsOf("invalid_refs") = <<>>
            /\ ItemsOf("over_limit") = <<>>

C10_Witness ==
  /\ pc = "done"
  /\ ~validation.passed
  /\ Len(validation.errors) = 3
  /\ Len(ItemsOf("untranslated")) > 0
  /\ Len(ItemsOf("invalid_refs")) > 0
  /\ Len(ItemsOf("over_limit")) > 0

----------------------------------------------------------------------------
(* getCoreContextLimit on its own *)

FiveFlags ==
  {"disableDynamicMemory", "disableAutoPlotCompression",
   "disableMacroPromptInjections", "disableDefaultContentPolicy",
   "disableDefaultSystemInstructions"}

Cues == {"disableNarrationCue", "disableDialogueCue"}

InitLimit ==
  /\ pc = "settings"
  /\ settings \in [FiveFlags \cup Cues -> BOOLEAN] \cup {NoSettings}
  /\ limit = 0
  /\ store = <<>>
  /\ targetLang = "en"
  /\ encoder = TRUE
  /\ extractedData = None
  /\ translatedBatches = NoBatches
  /\ batchIdx = 1
  /\ merged = None
  /\ again = None
  /\ validation = None
  /\ clock = 0
  /\ RunIdle

(* the limit of a story whose advancedSettings are the settings *)
ComputeLimit ==
  /\ pc = "settings"
  /\ limit' = getCoreContextLimit(settings)
  /\ pc' = "computed"
  /\ UNCHANGED <<store, targetLang, encoder, extractedData, translatedBatches,
                 batchIdx, merged, again, validation, clock, settings>>
  /\ UNCHANGED runVars

(* the limit of the same story with one more flag enabled *)
EnableFlag ==
  /\ pc = "computed"
  /\ \E f \in FiveFlags :
       /\ ~Flag(settings, f)
       /\ settings' = SetField(settings, f, TRUE)
  /\ limit' = getCoreContextLimit(settings')
  /\ UNCHANGED <<pc, store, targetLang, encoder, extractedData, translatedBatches,
                 batchIdx, merged, again, validation, clock>>
  /\ UNCHANGED runVars

NextLimit == ComputeLimit \/ EnableFlag

SpecLimit == InitLimit /\ [][NextLimit]_vars

(* the flag is enabled by the step *)
Enabled(f) == pc = "computed" /\ pc' = "computed" /\ ~Flag(settings, f) /\ Flag(settings', f)

(* what the flag adds when nothing else is set *)
AloneIncrement(f) ==
  getCoreContextLimit([g \in {f} |-> TRUE]) - getCoreContextLimit(NoSettings)

(* C9 as stated: the budget is 2000 when none of the five flags is enabled,
   and enabling one more flag raises it by an increment that is the same
   whatever other flags or settings are set. *)
C9_FixedIncrements ==
  [][/\ (pc' = "computed" /\ \A f \in FiveFlags : ~Flag(settings', f)) => limit' = 2000
     /\ \A f \in FiveFlags : Enabled(f) => limit' - limit = AloneIncrement(f)]_vars

Increment(f, s) ==
  CASE f \in {"disableDynamicMemory", "disableDefaultContentPolicy"} -> 800
    [] f \in {"disableAutoPlotCompression", "disableMacroPromptInjections"} -> 1200
    [] f = "disableDefaultSystemInstructions" ->
         IF \A c \in Cues : Flag(s, c) THEN 1500
         ELSE IF \E c \in Cues : Flag(s, c) THEN 1000 ELSE 0

(* C9, amended: the budget is 2000 when none of the five flags is enabled;
   enabling disableDynamicMemory or disableDefaultContentPolicy raises it by
   800 and disableAutoPlotCompression or disableMacroPromptInjections by
   1200, whatever else is set; enabling disableDefaultSystemInstructions
   raises it by 1500 when disableNarrationCue and disableDialogueCue are
   both set, by 1000 when one of them is, and by 0 when neither is. *)
C9_Increments ==
  [][/\ (pc' = "computed" /\ \A f \in FiveFlags : ~Flag(settings', f)) => limit' = 2000
     /\ \A f \in FiveFlags : Enabled(f) => limit' - limit = Increment(f, settings)]_vars

C9_Witness ==
  /\ pc = "computed"
  /\ Flag(settings, "disableDefaultSystemInstructions")
  /\ Flag(settings, "disableNarrationCue")
  /\ ~Flag(settings, "disableDialogueCue")
  /\ Flag(settings, "disableDynamicMemory")
  /\ limit = 3800

----------------------------------------------------------------------------
(* Properties of extractCanvas *)

Extracted == extractedData # None

(* how many items of the six batches carry the uid *)
Occurrences(uid) ==
  Len(SelectSeq(Flatten(extractedData.batches, batchOrder),
                LAMBDA item : item.uid = uid))

(* C15: after extractCanvas every node's uid is in at most one of the six
   batches, at most once, and no node of type trigger is in any batch *)
C15_OneBatchNoTrigger ==
  Extracted =>
    \A u \in DOMAIN Original.metadataSet :
       /\ Occurrences(u) <= 1
       /\ Original.metadataSet[u].type = "trigger" => Occurrences(u) = 0

C15_Witness ==
  /\ Extracted
  /\ \E u, v \in DOMAIN Original.metadataSet :
       /\ Original.metadataSet[u].type = "trigger"
       /\ Truthy(Get(Original.metadataSet[u], "text"))
       /\ Occurrences(u) = 0
       /\ Occurrences(v) = 1

----------------------------------------------------------------------------
(* Lorebook entries through merge *)

(* nodes for which merge was handed fewer entries than the node has *)
ShorterEntries ==
  {u \in DOMAIN Handed \cap DOMAIN Original.metadataSet :
     /\ Has(Handed[u], "entries") /\ Has(Original.metadataSet[u], "entries")
     /\ Len(Handed[u].entries) < Len(Original.metadataSet[u].entries)}

(* C16: when the translated item has fewer entries than the node, the merged
   entries have the original length: the entries at the indices of the
   translated array are the translated ones, the others the original ones *)
C16_EntriesPositional ==
  Merged =>
    \A u \in ShorterEntries :
       LET o == Original.metadataSet[u].entries
           t == Handed[u].entries
           r == Result.metadataSet[u].entries
       IN /\ Len(r) = Len(o)
          /\ \A i \in 1..Len(o) : r[i] = IF i <= Len(t) THEN t[i] ELSE o[i]

----------------------------------------------------------------------------
(* Bounds of a run of main *)

(* most rows of the Requests sheet *)
MaxRows == 2

----------------------------------------------------------------------------
(* extract.js 66-130: the glossary skeleton *)

NoTranslation == [en |-> Empty, ja |-> Empty]

VariableNames(metadataSet) ==
  {metadataSet[u].variableName : u \in {v \in DOMAIN metadataSet :
      metadataSet[v].type = "variable" /\ Has(metadataSet[v], "variableName")
      /\ Truthy(metadataSet[v].variableName)}}

EntryKeys(metadataSet) ==
  UNION {{metadataSet[u].entries[i].key :
            i \in {j \in 1..Len(metadataSet[u].entries) :
                     Has(metadataSet[u].entries[j], "key")
                     /\ Truthy(metadataSet[u].entries[j].key)}} :
         u \in {v \in DOMAIN metadataSet :
                  metadataSet[v].type = "lorebook" /\ Has(metadataSet[v], "entries")}}

GlossaryOf(canvas) ==
  [characters |-> [n \in CharacterNames(canvas.metadataSet) |-> NoTranslation],
   variables |-> [n \in VariableNames(canvas.metadataSet) |-> NoTranslation],
   terms |-> [n \in EntryKeys(canvas.metadataSet) |-> NoTranslation]]

----------------------------------------------------------------------------
(* translate.js: translateGlossary, translateBatch and the chunks *)

Categories == {"characters", "variables", "terms"}

GlossaryKeys(g) == UNION {{<<c, n>> : n \in DOMAIN g[c]} : c \in Categories}

(* translate.js 210-225: the translations of known names are filled in *)
ApplyGlossary(g, translations, lang) ==
  [c \in Categories |->
     [n \in DOMAIN g[c] |->
        IF <<c, n>> \in DOMAIN translations
        THEN SetField(g[c][n], lang, translations[<<c, n>>])
        ELSE g[c][n]]]

NoTranslations == [k \in {} |-> Empty]

(* what the translation capability may answer to the glossary prompt *)
GlossaryReplies(g, lang) ==
  {[kind |-> k, translations |-> NoTranslations] : k \in {"error", "unparseable"}}
  \cup {[kind |-> "object",
         translations |-> [k \in S |-> TrText(k[2], lang, FALSE)]] :
        S \in {{}, GlossaryKeys(g)}}

(* translateGlossary carrying on with the skeleton when JSON.parse throws *)
translateGlossaryLenient(g, reply, lang) ==
  CASE reply.kind = "error" ->
         [threw |-> TRUE, message |-> "glossary call failed", glossary |-> g]
    [] OTHER ->
         [threw |-> FALSE, message |-> "",
          glossary |-> ApplyGlossary(g, reply.translations, lang)]

(* translate.js 186-231 *)
translateGlossary(g, reply, lang) ==
  CASE reply.kind = "error" ->
         [threw |-> TRUE, message |-> "glossary call failed", glossary |-> g]
    [] reply.kind = "unparseable" ->
         [threw |-> TRUE, message |-> "Unexpected token in JSON", glossary |-> g]
    [] OTHER ->
         [threw |-> FALSE, message |-> "",
          glossary |-> ApplyGlossary(g, reply.translations, lang)]

CHUNK_SIZE == 10

NumChunks(batch) == (Len(batch) + CHUNK_SIZE - 1) \div CHUNK_SIZE

(* translate.js 267-269: batch.slice(i, i + CHUNK_SIZE) of the k-th chunk *)
ChunkAt(batch, k) ==
  SubSeq(batch, (k - 1) * CHUNK_SIZE + 1, Min({k * CHUNK_SIZE, Len(batch)}))

RunModes == {"translate", "echo"}

(* what the translation capability may answer to the prompt of a chunk *)
ChunkReplies(chunk, lang) ==
  {[kind |-> k, items |-> <<>>] : k \in {"error", "unparseable", "notarray"}}
  \cup {[kind |-> "array",
         items |-> ReplyOf(chunk, [u \in {chunk[i].uid : i \in 1..Len(chunk)} |-> mode],
                           lang)] :
        mode \in RunModes}

(* translateBatch returning the chunk it was given when the call fails *)
translateBatchTolerant(chunk, reply) ==
  IF reply.kind = "array"
  THEN [threw |-> FALSE, message |-> "", translated |-> reply.items]
  ELSE [threw |-> FALSE, message |-> "", translated |-> chunk]

(* translate.js 89-130 *)
translateBatch(chunk, reply) ==
  CASE reply.kind = "error" ->
         [threw |-> TRUE, message |-> "translation call failed", translated |-> <<>>]
    [] reply.kind = "unparseable" ->
         [threw |-> TRUE, message |-> "Unexpected token in JSON", translated |-> <<>>]
    [] reply.kind = "notarray" ->
         [threw |-> TRUE, message |-> "Expected array response from translation",
          translated |-> <<>>]
    [] OTHER -> [threw |-> FALSE, message |-> "", translated |-> reply.items]

----------------------------------------------------------------------------
(* sheets-handler.js *)

STATUS == [PENDING |-> "pending", PROCESSING |-> "processing",
           COMPLETED |-> "completed", FAILED |-> "failed"]

PendingRow == [status |-> STATUS.PENDING, resultUrl |-> "", error |-> ""]

DoneRow == [status |-> STATUS.COMPLETED, resultUrl |-> "email:addr", error |-> ""]

(* the sheets a run may find: row i of the data is row i + 2 of the sheet *)
Sheets == UNION {[2..(n + 1) -> {PendingRow, DoneRow}] : n \in 0..MaxRows}

FetchLimit == 10

RECURSIVE PendingFrom(_, _)
PendingFrom(sheet, r) ==
  IF r \notin DOMAIN sheet THEN <<>>
  ELSE (IF sheet[r].status = STATUS.PENDING THEN <<r>> ELSE <<>>)
         \o PendingFrom(sheet, r + 1)

(* sheets-handler.js 84-107: the first pending rows, at most limit of them *)
getPendingRequests(sheet, lim) ==
  LET all == PendingFrom(sheet, 2)
  IN SubSeq(all, 1, Min({lim, Len(all)}))

(* sheets-handler.js 130-170: the cells the batch update writes *)
updateRequestStatus(sheet, rowIndex, status, options) ==
  [sheet EXCEPT ![rowIndex] =
     [status |-> status,
      resultUrl |-> IF options.resultUrl # "" THEN options.resultUrl ELSE @.resultUrl,
      error |-> IF options.error # "" THEN options.error ELSE @.error]]

NoOptions == [resultUrl |-> "", error |-> ""]

----------------------------------------------------------------------------
(* main.js: a run of main over the queue *)

Garbage == [json |-> FALSE]

Encode(doc) == [json |-> TRUE, doc |-> doc]

EmptyObject == [x \in {} |-> Empty]

(* a Korean canvas with eleven variables and a character *)
LongCanvas ==
  [canvas |-> [canvasLanguage |-> "ko", tagCategorization |-> <<"categories">>],
   metadataSet |-> [u \in {UidOrder[i] : i \in 1..12} |->
                      IF u = UidOrder[12] THEN NodeTemplates("Hn")[4]
                      ELSE NodeTemplates("Hn")[8]]]

(* the contents of column H of a row *)
Payloads == {Garbage, Encode(EmptyObject), Encode(LongCanvas)}

(* an entry of the log: the call, what it was about, whether it succeeded,
   the message it threw or carried, and the translation call it belongs to *)
Ev(op, arg, ok, msg, call) ==
  [op |-> op, arg |-> arg, ok |-> ok, msg |-> msg, call |-> call]

NoCall == <<0, 0>>

GlossaryCall == <<0, 1>>

InitRun ==
  /\ pc = "fetch"
  /\ runOnce \in BOOLEAN
  /\ rows \in Sheets
  /\ requests = <<>>
  /\ cur = 0
  /\ request = None
  /\ glossary = None
  /\ chunkIdx = 1
  /\ translatedChunks = <<>>
  /\ inflight = {}
  /\ error = ""
  /\ delivery = None
  /\ log = <<>>
  /\ account = None
  /\ runs = <<>>
  /\ store = <<>>
  /\ targetLang = "en"
  /\ encoder = TRUE
  /\ extractedData = None
  /\ translatedBatches = NoBatches
  /\ batchIdx = 1
  /\ merged = None
  /\ again = None
  /\ validation = None
  /\ clock = 0
  /\ settings = NoSettings
  /\ limit = 0

pipelineVars == <<store, targetLang, extractedData, translatedBatches, batchIdx,
                  merged, validation, glossary, chunkIdx, translatedChunks,
                  inflight, delivery, account>>

fixedVars == <<encoder, again, settings, limit, runOnce, clock, runs>>

(* main.js 218-223: getPendingRequests returns or throws *)
Fetch ==
  /\ pc = "fetch"
  /\ \/ /\ requests' = getPendingRequests(rows, IF runOnce THEN 1 ELSE FetchLimit)
        /\ cur' = 1
        /\ pc' = IF requests' = <<>> THEN "finished" ELSE "loop"
     \/ /\ pc' = "exit"
        /\ UNCHANGED <<requests, cur>>
  /\ UNCHANGED <<rows, request, error, log, pipelineVars, fixedVars>>

(* main.js 227: the loop variable is bound to the next request; the cells of
   its row are read here for the first time *)
StartJob ==
  /\ pc = "loop"
  /\ \E uid \in {Null, <<"known">>, <<"unknown">>}, sl \in {"ko", "en"},
        tl \in {"en"}, cj \in Payloads :
       request' = [rowIndex |-> requests[cur], userUid |-> uid, email |-> <<"addr">>,
                   sourceLang |-> sl, targetLang |-> tl, canvasJson |-> cj]
  /\ pc' = "claim"
  /\ UNCHANGED <<rows, requests, cur, error, log, pipelineVars, fixedVars>>

(* main calling processRequest whether or not the write succeeded *)
AfterClaimRegardless(written) == "parse"

(* main.js 229-233, 243: processRequest is called after the awaited write
   has returned; when the write throws control is in the catch *)
AfterClaim(written) == IF written THEN "parse" ELSE "markFailed"

(* main.js 230: updateRequestStatus(request.rowIndex, STATUS.PROCESSING) *)
Claim ==
  /\ pc = "claim"
  /\ \/ /\ rows' = updateRequestStatus(rows, request.rowIndex, STATUS.PROCESSING,
                                       NoOptions)
        /\ log' = Append(log, Ev("status", STATUS.PROCESSING, TRUE, "", NoCall))
        /\ pc' = AfterClaim(TRUE)
        /\ UNCHANGED error
     \/ /\ log' = Append(log, Ev("status", STATUS.PROCESSING, FALSE, "", NoCall))
        /\ error' = "Sheets API error"
        /\ pc' = AfterClaim(FALSE)
        /\ UNCHANGED rows
  /\ UNCHANGED <<requests, cur, request, pipelineVars, fixedVars>>

(* main.js 31, 44-49 *)
ParseCanvas ==
  /\ pc = "parse"
  /\ targetLang' = request.targetLang
  /\ IF request.canvasJson.json
     THEN /\ store' = <<request.canvasJson.doc>>
          /\ log' = Append(log, Ev("parse", "", TRUE, "", NoCall))
          /\ pc' = "extract"
          /\ UNCHANGED error
     ELSE /\ error' = "Invalid canvas JSON"
          /\ log' = Append(log, Ev("parse", "", FALSE, error', NoCall))
          /\ pc' = "notify"
          /\ UNCHANGED store
  /\ UNCHANGED <<rows, requests, cur, request, extractedData, translatedBatches,
                 batchIdx, merged, validation, glossary, chunkIdx,
                 translatedChunks, inflight, delivery, account,
                 fixedVars>>

(* main.js 57; extract.js 68 throws on a document without canvas *)
RunExtract ==
  /\ pc = "extract"
  /\ IF Has(store[1], "canvas") /\ Has(store[1], "metadataSet")
     THEN /\ extractedData' = extractCanvas(store[1])
          /\ glossary' = GlossaryOf(store[1])
          /\ log' = Append(log, Ev("extract", "", TRUE, "", NoCall))
          /\ pc' = "glossary"
          /\ UNCHANGED error
     ELSE /\ error' = "Cannot read properties of undefined"
          /\ log' = Append(log, Ev("extract", "", FALSE, error', NoCall))
          /\ pc' = "notify"
          /\ UNCHANGED <<extractedData, glossary>>
  /\ UNCHANGED <<rows, requests, cur, request, store, targetLang, translatedBatches,
                 batchIdx, merged, validation, chunkIdx, translatedChunks,
                 inflight, delivery, account,
                 fixedVars>>

(* translate.js 187: the glossary prompt is sent *)
GlossarySend ==
  /\ pc = "glossary"
  /\ inflight' = inflight \cup {GlossaryCall}
  /\ log' = Append(log, Ev("send", "glossary", TRUE, "", GlossaryCall))
  /\ pc' = "glossaryWait"
  /\ UNCHANGED <<rows, requests, cur, request, error, store, targetLang,
                 extractedData, translatedBatches, batchIdx, merged, validation,
                 glossary, chunkIdx, translatedChunks, delivery, account,
                 fixedVars>>

(* translate.js 198-231, 247: the reply arrives *)
GlossaryReply ==
  /\ pc = "glossaryWait"
  /\ \E reply \in GlossaryReplies(glossary, targetLang) :
       LET r == translateGlossary(glossary, reply, targetLang)
       IN /\ glossary' = r.glossary
          /\ log' = Append(log, Ev("reply", reply.kind, ~r.threw, r.message,
                                   GlossaryCall))
          /\ error' = r.message
          /\ pc' = IF r.threw THEN "notify" ELSE "translate"
  /\ inflight' = inflight \ {GlossaryCall}
  /\ UNCHANGED <<rows, requests, cur, request, store, targetLang, extractedData,
                 translatedBatches, batchIdx, merged, validation, chunkIdx,
                 translatedChunks, delivery, account,
                 fixedVars>>

(* translate.js 254-279: the prompt of the next chunk is sent *)
ChunkSend ==
  /\ pc = "translate"
  /\ NextBatch(batchIdx) <= Len(batchOrder)
  /\ batchIdx' = NextBatch(batchIdx)
  /\ inflight' = inflight \cup {<<batchIdx', chunkIdx>>}
  /\ log' = Append(log, Ev("send", batchOrder[batchIdx'], TRUE, "",
                           <<batchIdx', chunkIdx>>))
  /\ pc' = "chunkWait"
  /\ UNCHANGED <<rows, requests, cur, request, error, store, targetLang,
                 extractedData, translatedBatches, merged, validation,
                 glossary, chunkIdx, translatedChunks, delivery, account,
                 fixedVars>>

(* translate.js 273-289: the reply of the chunk arrives *)
ChunkReply ==
  /\ pc = "chunkWait"
  /\ LET b == batchOrder[batchIdx]
         batch == extractedData.batches[b]
         chunk == ChunkAt(batch, chunkIdx)
     IN \E reply \in ChunkReplies(chunk, targetLang) :
          LET r == translateBatch(chunk, reply)
          IN /\ log' = Append(log, Ev("reply", reply.kind, ~r.threw, r.message,
                                      <<batchIdx, chunkIdx>>))
             /\ error' = r.message
             /\ IF r.threw
                THEN /\ pc' = "notify"
                     /\ UNCHANGED <<translatedChunks, translatedBatches, batchIdx,
                                    chunkIdx>>
                ELSE /\ pc' = "translate"
                     /\ IF chunkIdx < NumChunks(batch)
                        THEN /\ translatedChunks' = translatedChunks \o r.translated
                             /\ chunkIdx' = chunkIdx + 1
                             /\ UNCHANGED <<translatedBatches, batchIdx>>
                        ELSE /\ translatedBatches' =
                                  [translatedBatches EXCEPT
                                     ![b] = translatedChunks \o r.translated]
                             /\ translatedChunks' = <<>>
                             /\ chunkIdx' = 1
                             /\ batchIdx' = batchIdx + 1
  /\ inflight' = inflight \ {<<batchIdx, chunkIdx>>}
  /\ UNCHANGED <<rows, requests, cur, request, store, targetLang, extractedData,
                 merged, validation, glossary, delivery, account,
                 fixedVars>>

(* main.js 79-84 *)
RunMerge ==
  /\ pc = "translate"
  /\ NextBatch(batchIdx) > Len(batchOrder)
  /\ LET c == DeepClone(store, 1)
         r == mergeTranslations(c.store[c.ref], translatedBatches,
                                extractedData.context, targetLang, clock)
     IN /\ store' = [c.store EXCEPT ![c.ref] = r.canvas]
        /\ merged' = [ref |-> c.ref, stats |-> r.stats]
  /\ log' = Append(log, Ev("merge", "", TRUE, "", NoCall))
  /\ pc' = "validate"
  /\ UNCHANGED <<rows, requests, cur, request, error, targetLang, extractedData,
                 translatedBatches, batchIdx, validation, glossary, chunkIdx,
                 translatedChunks, inflight, delivery, account,
                 fixedVars>>

(* the source language given to validateCanvas were it the cell of the row *)
RowSourceLang(req, canvas) == req.sourceLang

(* main.js 31, 51: the sourceLang of the request is not read *)
RequestSourceLang(req, canvas) == SourceLang(canvas)

(* processRequest raising an error when the report has findings *)
AfterValidationStrict(report) == IF report.passed THEN "deliver" ELSE "notify"

(* main.js 91-101: the report is logged and delivery follows *)
AfterValidation(report) == "deliver"

(* main.js 90 *)
RunValidate ==
  /\ pc = "validate"
  /\ validation' = validateCanvas(store[merged.ref],
                                  RequestSourceLang(request, store[1]), encoder)
  /\ log' = Append(log, Ev("validate", "", TRUE, "", NoCall))
  /\ pc' = AfterValidation(validation')
  /\ error' = IF pc' = "notify" THEN "Validation failed" ELSE error
  /\ UNCHANGED <<rows, requests, cur, request, store, targetLang, extractedData,
                 translatedBatches, batchIdx, merged, glossary, chunkIdx,
                 translatedChunks, inflight, delivery, account,
                 fixedVars>>

(* mongodb-import.js 140-168: true only for a user that is found; a database
   error gives false; a missing connection string throws *)
VerifyOutcomes(uid) ==
  (IF uid = <<"known">> THEN {"found"} ELSE {"notfound"}) \cup {"dberror", "throws"}

(* main.js 107-122: verifyUserExists *)
VerifyUser ==
  /\ pc = "deliver"
  /\ IF Truthy(request.userUid)
     THEN \E outcome \in VerifyOutcomes(request.userUid) :
            /\ log' = Append(log, Ev("verify", outcome, outcome = "found", "", NoCall))
            /\ pc' = IF outcome = "found" THEN "import" ELSE "email"
     ELSE /\ pc' = "email"
          /\ UNCHANGED log
  /\ UNCHANGED <<rows, requests, cur, request, error, pipelineVars, fixedVars>>

(* mongodb-import.js 34-131: the call inserts one document for each node,
   in metadataSet order, then the canvas document; it throws when it cannot
   connect, when an insert fails or when the nodes array cannot be built,
   and the documents inserted before that are left in the store *)
importCanvasToMongoDB(canvas) ==
  LET uids == Keys(canvas.metadataSet)
  IN {[success |-> TRUE, metadata |-> uids, canvas |-> TRUE]}
     \cup {[success |-> FALSE, metadata |-> SubSeq(uids, 1, k), canvas |-> FALSE] :
             k \in 0..Len(uids)}

(* main.js 112-121: importCanvasToMongoDB returns a result or throws *)
ImportCanvas ==
  /\ pc = "import"
  /\ \E r \in importCanvasToMongoDB(store[merged.ref]) :
       /\ log' = Append(log, Ev("import", "", r.success, "", NoCall))
       /\ account' = [metadata |-> r.metadata, canvas |-> r.canvas]
       /\ delivery' = IF r.success
                      THEN [method |-> "mongodb", doc |-> store[merged.ref]]
                      ELSE delivery
  /\ pc' = "email"
  /\ UNCHANGED <<rows, requests, cur, request, error, store, targetLang,
                 extractedData, translatedBatches, batchIdx, merged, validation,
                 glossary, chunkIdx, translatedChunks, inflight, fixedVars>>

(* the test of main.js 125 always passing *)
NoResultYetAlways(d) == TRUE

(* main.js 125: !deliveryResult *)
NoResultYet(d) == d = None

(* main.js 125-129: sendTranslatedCanvas returns a result or throws *)
SendEmail ==
  /\ pc = "email"
  /\ IF NoResultYet(delivery)
     THEN \E ok \in BOOLEAN :
            /\ log' = Append(log, Ev("email", "", ok, IF ok THEN "" ELSE "Mailgun API error",
                                     NoCall))
            /\ IF ok
               THEN /\ delivery' = [method |-> "email", doc |-> store[merged.ref]]
                    /\ pc' = "markCompleted"
                    /\ UNCHANGED error
               ELSE /\ error' = "Mailgun API error"
                    /\ pc' = "notify"
                    /\ UNCHANGED delivery
     ELSE /\ pc' = "markCompleted"
          /\ UNCHANGED <<log, delivery, error>>
  /\ UNCHANGED <<rows, requests, cur, request, store, targetLang, extractedData,
                 translatedBatches, batchIdx, merged, validation, glossary,
                 chunkIdx, translatedChunks, inflight, account, fixedVars>>

(* main.js 237-239: result.canvasId is not a field of the result *)
ResultUrl(method) == IF method = "mongodb" THEN "mongodb:imported" ELSE "email:addr"

(* main.js 236-240: updateRequestStatus(..., STATUS.COMPLETED, {resultUrl}) *)
MarkCompleted ==
  /\ pc = "markCompleted"
  /\ \/ /\ rows' = updateRequestStatus(rows, request.rowIndex, STATUS.COMPLETED,
                     [resultUrl |-> ResultUrl(delivery.method), error |-> ""])
        /\ log' = Append(log, Ev("status", STATUS.COMPLETED, TRUE, "", NoCall))
        /\ pc' = "next"
        /\ UNCHANGED error
     \/ /\ log' = Append(log, Ev("status", STATUS.COMPLETED, FALSE, "Sheets API error",
                                 NoCall))
        /\ error' = "Sheets API error"
        /\ pc' = "markFailed"
        /\ UNCHANGED rows
  /\ UNCHANGED <<requests, cur, request, pipelineVars, fixedVars>>

(* the catch of main.js 146 letting the error of the notification escape *)
ThrownAfterNotifyMasked(original, outcome) ==
  IF outcome = "throws" THEN "Mailgun API key not provided" ELSE original

(* main.js 142-151: the error caught first is the one rethrown *)
ThrownAfterNotify(original, outcome) == original

(* main.js 138-151: sendErrorNotification sends, is refused, or throws *)
Notify ==
  /\ pc = "notify"
  /\ \E outcome \in {"sent", "refused", "throws"} :
       /\ log' = Append(log, Ev("notify", outcome, outcome = "sent", error, NoCall))
       /\ error' = ThrownAfterNotify(error, outcome)
  /\ pc' = "markFailed"
  /\ UNCHANGED <<rows, requests, cur, request, pipelineVars, fixedVars>>

(* main.js 243-250: updateRequestStatus(..., STATUS.FAILED, {error}); when it
   throws the error leaves the loop and main exits, main.js 262-264 *)
MarkFailed ==
  /\ pc = "markFailed"
  /\ \/ /\ rows' = updateRequestStatus(rows, request.rowIndex, STATUS.FAILED,
                     [resultUrl |-> "", error |-> error])
        /\ log' = Append(log, Ev("status", STATUS.FAILED, TRUE, error, NoCall))
        /\ pc' = "next"
     \/ /\ log' = Append(log, Ev("status", STATUS.FAILED, FALSE, error, NoCall))
        /\ pc' = "exit"
        /\ UNCHANGED rows
  /\ UNCHANGED <<requests, cur, request, error, pipelineVars, fixedVars>>

(* main.js 227, 252-257: the next iteration of the loop *)
EndJob ==
  /\ pc = "next"
  /\ cur' = cur + 1
  /\ pc' = IF cur < Len(requests) THEN "loop" ELSE "finished"
  /\ request' = None
  /\ error' = ""
  /\ log' = <<>>
  /\ store' = <<>>
  /\ targetLang' = "en"
  /\ extractedData' = None
  /\ translatedBatches' = NoBatches
  /\ batchIdx' = 1
  /\ merged' = None
  /\ validation' = None
  /\ glossary' = None
  /\ chunkIdx' = 1
  /\ translatedChunks' = <<>>
  /\ delivery' = None
  /\ account' = None
  /\ clock' = clock + 1
  /\ UNCHANGED <<rows, requests, inflight, encoder, again, settings, limit, runOnce,
                 runs>>

NextRun ==
  \/ Fetch \/ StartJob \/ Claim \/ ParseCanvas \/ RunExtract
  \/ GlossarySend \/ GlossaryReply \/ ChunkSend \/ ChunkReply
  \/ RunMerge \/ RunValidate \/ VerifyUser \/ ImportCanvas \/ SendEmail
  \/ MarkCompleted \/ Notify \/ MarkFailed \/ EndJob

SpecRun == InitRun /\ [][NextRun]_vars

----------------------------------------------------------------------------
(* Properties of a job of the run *)

LogIdx(op) == {k \in 1..Len(log) : log[k].op = op}

Attempted(op) == LogIdx(op) # {}

Did(op, ok) == \E k \in LogIdx(op) : log[k].ok = ok

InJob == request # None

Row == rows[request.rowIndex]

(* the job is over and the loop is about to go on *)
JobEnded == pc = "next"

(* the delivery step of processRequest is behind *)
DeliveryOver ==
  validation # None /\ pc \in {"markCompleted", "notify", "markFailed", "next", "exit"}

(* C11: with an account identifier the import is tried first; the e-mail
   is attempted if and only if no import result was obtained; a job is never
   delivered by both methods; the method reported is the one that succeeded *)
C11_DeliveryFallback ==
  InJob =>
    /\ \A k \in LogIdx("import") \cup LogIdx("email") :
         Truthy(request.userUid) => \E j \in LogIdx("verify") : j < k
    /\ \A k \in LogIdx("import") :
         /\ Truthy(request.userUid)
         /\ \A j \in LogIdx("email") : k < j
    /\ DeliveryOver => (Attempted("email") <=> ~Did("import", TRUE))
    /\ ~(Did("import", TRUE) /\ Did("email", TRUE))
    /\ delivery # None =>
         /\ Did("import", TRUE) \/ Did("email", TRUE)
         /\ delivery.method = IF Did("import", TRUE) THEN "mongodb" ELSE "email"
    /\ (JobEnded /\ Row.status = "completed") =>
         Row.resultUrl = IF Did("import", TRUE) THEN "mongodb:imported"
                         ELSE "email:addr"

C11_Witness ==
  /\ InJob /\ JobEnded
  /\ Truthy(request.userUid)
  /\ Did("import", FALSE)
  /\ Did("email", TRUE)
  /\ Row.status = "completed"
  /\ Row.resultUrl = "email:addr"

(* the steps of the pipeline whose failure is fatal for the job *)
Fatal ==
  {k \in 1..Len(log) : log[k].op \in {"parse", "extract", "reply", "email"}
                       /\ ~log[k].ok}

(* C12: after a fatal error of a job the row is written failed with the
   message of that error, after an attempt to notify the requester, also
   when the notification itself fails *)
C12_FailureRecorded ==
  InJob =>
    \A k \in Fatal :
       /\ \A j \in LogIdx("status") :
            j > k =>
              /\ log[j].arg = "failed"
              /\ log[j].msg = log[k].msg
              /\ \E n \in LogIdx("notify") : k < n /\ n < j /\ log[n].msg = log[k].msg
       /\ JobEnded => Row.status = "failed" /\ Row.error = log[k].msg

C12_Witness ==
  /\ InJob /\ JobEnded
  /\ \E k \in Fatal : log[k].op = "reply"
  /\ \E n \in LogIdx("notify") : log[n].arg = "throws"
  /\ Row.status = "failed"
  /\ Row.error = "translation call failed"

(* C13: once merge has completed, delivery is attempted whatever the report;
   findings never fail the job and never change the document delivered *)
C13_ValidationAdvisory ==
  InJob =>
    /\ DeliveryOver => Attempted("email") \/ Attempted("import")
    /\ (validation # None /\ JobEnded /\ Row.status = "failed") =>
         \/ Did("email", FALSE)
         \/ \E k \in LogIdx("status") : log[k].arg = "completed" /\ ~log[k].ok
    /\ (validation # None /\ error # "") =>
         \/ Did("email", FALSE)
         \/ \E k \in LogIdx("status") : log[k].arg = "completed" /\ ~log[k].ok
    /\ delivery # None =>
         delivery.doc = mergeTranslations(store[1], translatedBatches,
                          extractedData.context, targetLang, clock).canvas

C13_Witness ==
  /\ InJob /\ JobEnded
  /\ validation # None
  /\ ~validation.passed
  /\ Row.status = "completed"

(* the reply to the glossary prompt was an error or could not be parsed *)
GlossaryFailed ==
  \E k \in LogIdx("reply") :
     log[k].call = GlossaryCall /\ log[k].arg \in {"error", "unparseable"}

(* C14: when the glossary call errors or its reply cannot be parsed the job
   fails: no batch call, no merge, no delivery, and no translation is applied
   to the glossary *)
C14_GlossaryFailureFatal ==
  (InJob /\ GlossaryFailed) =>
    /\ \A k \in LogIdx("send") : log[k].call = GlossaryCall
    /\ ~Attempted("merge") /\ merged = None
    /\ ~Attempted("verify") /\ ~Attempted("import") /\ ~Attempted("email")
    /\ delivery = None
    /\ glossary = GlossaryOf(store[1])
    /\ pc \in {"notify", "markFailed", "next", "exit"}
    /\ JobEnded => Row.status = "failed"

C14_Witness ==
  /\ InJob /\ JobEnded
  /\ \E k \in LogIdx("reply") :
       log[k].call = GlossaryCall /\ log[k].arg = "unparseable"
  /\ GlossaryKeys(glossary) # {}
  /\ Row.status = "failed"

(* what processRequest computes for a request, given the replies received *)
Outcome(req) ==
  LET canvas == req.canvasJson.doc
      ed == extractCanvas(canvas)
      m == mergeTranslations(canvas, translatedBatches, ed.context, req.targetLang,
                             clock)
  IN [canvas |-> m.canvas, stats |-> m.stats,
      validation |-> validateCanvas(m.canvas, RequestSourceLang(req, canvas), encoder)]

(* C17: requests that differ only in the sourceLang of the row have the same
   merged document, the same stats and the same validation report; stated
   where processRequest has just computed the report *)
C17_SourceLangFromDocument ==
  (InJob /\ pc = "deliver") =>
    \A l \in Langs :
       Outcome([request EXCEPT !.sourceLang = l])
         = [canvas |-> store[merged.ref], stats |-> merged.stats,
            validation |-> validation]

C17_Witness ==
  /\ InJob /\ pc = "deliver"
  /\ validation.passed
  /\ request.sourceLang # SourceLang(store[1])
  /\ merged.stats.sourceLang = "ko"

(* the order of the translation calls *)
CallOrder == <<"glossary", "storyCore", "variables", "characters", "characterText",
               "content", "system">>

Pos(name) == CHOOSE i \in 1..Len(CallOrder) : CallOrder[i] = name

(* the call sent at k was answered before j *)
AnsweredBefore(k, j) ==
  \E r \in LogIdx("reply") : k < r /\ r < j /\ log[r].call = log[k].call /\ log[r].ok

(* C18: at most one translation call is outstanding; the glossary call is
   answered before the first batch call; batches follow the fixed order;
   chunk i+1 is sent after the reply of chunk i; merge follows the last
   reply and validation follows merge *)
C18_Sequential ==
  /\ Cardinality(inflight) <= 1
  /\ \A j, k \in LogIdx("send") :
       j < k =>
         /\ AnsweredBefore(j, k)
         /\ \/ Pos(log[j].arg) < Pos(log[k].arg)
            \/ log[j].arg = log[k].arg /\ log[j].call[2] < log[k].call[2]
  /\ \A m \in LogIdx("merge") :
       /\ \A k \in LogIdx("send") : AnsweredBefore(k, m)
       /\ \A n \in 2..Len(CallOrder) :
            \A i \in 1..NumChunks(extractedData.batches[CallOrder[n]]) :
               \E k \in LogIdx("send") : log[k].arg = CallOrder[n] /\ log[k].call[2] = i
  /\ \A v \in LogIdx("validate") : \E m \in LogIdx("merge") : m < v

C18_Witness ==
  /\ Attempted("validate")
  /\ \E j, k \in LogIdx("send") :
       /\ log[j].arg = "variables" /\ log[j].call[2] = 2
       /\ log[k].arg = "characters"

(* C19: a job whose pipeline failed does not stop the run: the run is not
   over before every job fetched after it has been written completed or
   failed *)
C19_FailingJobDoesNotStopRun ==
  (InJob /\ Fatal # {} /\ pc \in {"finished", "exit"}) =>
    \A k \in 1..Len(requests) :
       k > cur => rows[requests[k]].status \in {"completed", "failed"}

(* the replies to chunk prompts that were errors, unparseable or no array *)
ChunkFailed ==
  {k \in LogIdx("reply") :
     log[k].call # GlossaryCall /\ log[k].arg \in {"error", "unparseable", "notarray"}}

(* C20: a failed chunk call is fatal: no later chunk or batch is sent, there
   is no merge and no delivery, the row is written failed, and the items of
   the chunk are never used untranslated *)
C20_ChunkFailureFatal ==
  InJob =>
    \A k \in ChunkFailed :
       /\ \A j \in 1..Len(log) :
            j > k => /\ log[j].op \in {"notify", "status"}
                     /\ log[j].op = "status" => log[j].arg = "failed"
       /\ merged = None /\ delivery = None
       /\ pc \in {"notify", "markFailed", "next", "exit"}
       /\ JobEnded => Row.status = "failed"

C20_Witness ==
  /\ InJob /\ JobEnded
  /\ \E k \in ChunkFailed :
       /\ log[k].call[2] = 1
       /\ NumChunks(extractedData.batches[batchOrder[log[k].call[1]]]) = 2
  /\ Row.status = "failed"

----------------------------------------------------------------------------
(* translate.js 116-126: replies whose length is not the length of the chunk *)

ReplyShapes == {"translate", "omit", "twice"}

(* the items returned for one item of the chunk: one, none, or the item twice *)
ShapedReplyFor(item, shape, lang) ==
  CASE shape = "twice" -> <<TrItem(item, lang, FALSE), TrItem(item, lang, FALSE)>>
    [] OTHER -> ReplyFor(item, shape, lang)

RECURSIVE ShapedReplyOf(_, _, _)
ShapedReplyOf(chunk, shapes, lang) ==
  IF chunk = <<>> THEN <<>>
  ELSE ShapedReplyFor(Head(chunk), shapes[Head(chunk).uid], lang)
         \o ShapedReplyOf(Tail(chunk), shapes, lang)

(* what the translation capability may answer: an error, or an array with
   no, one or two items for each item sent *)
AnyLengthReplies(chunk, lang) ==
  {[kind |-> "error", items |-> <<>>]}
  \cup {[kind |-> "array", items |-> ShapedReplyOf(chunk, shapes, lang)] :
        shapes \in [{chunk[i].uid : i \in 1..Len(chunk)} -> ReplyShapes]}

(* translateBatch throwing when the lengths differ *)
LengthRejectedOnMismatch(translated, chunk) == Len(translated) # Len(chunk)

(* translate.js 121-123: a length that differs is logged as a warning *)
LengthRejected(translated, chunk) == FALSE

(* translate.js 89-130, 273-289: the reply of the one chunk of the batch *)
TranslateReply ==
  /\ pc = "translate"
  /\ NextBatch(batchIdx) <= Len(batchOrder)
  /\ LET i == NextBatch(batchIdx)
         b == batchOrder[i]
         chunk == extractedData.batches[b]
     IN \E reply \in AnyLengthReplies(chunk, targetLang) :
          LET r == translateBatch(chunk, reply)
              threw == r.threw \/ LengthRejected(r.translated, chunk)
          IN /\ log' = Append(log, SetField(Ev("reply", reply.kind, ~threw, r.message,
                                               <<i, 1>>),
                                            "items", reply.items))
             /\ IF threw
                THEN /\ pc' = "failed"
                     /\ UNCHANGED <<translatedBatches, batchIdx>>
                ELSE /\ translatedBatches' = [translatedBatches EXCEPT ![b] = r.translated]
                     /\ batchIdx' = i + 1
                     /\ UNCHANGED pc
  /\ UNCHANGED <<store, targetLang, encoder, extractedData, merged, again,
                 validation, clock, settings, limit>>
  /\ UNCHANGED <<runOnce, rows, requests, cur, request, glossary, chunkIdx,
                 translatedChunks, inflight, error, delivery, otherVars>>

NextReply == Extract \/ TranslateReply \/ Merge \/ Validate

SpecReply == Init /\ [][NextReply]_vars

(* the replies whose length is not the length of the batch that was sent *)
Mismatched ==
  {k \in LogIdx("reply") :
     /\ log[k].arg = "array"
     /\ Len(log[k].items) # Len(extractedData.batches[batchOrder[log[k].call[1]]])}

(* C21: a reply whose length differs from the chunk sent does not fail the
   job and is used as returned; every node without a translated item is
   unchanged in the merged document and counted in stats.skipped, and
   stats.applied + stats.skipped is the number of nodes of metadataSet *)
C21_LengthMismatchTolerated ==
  /\ \A k \in Mismatched :
       /\ log[k].ok
       /\ translatedBatches[batchOrder[log[k].call[1]]] = log[k].items
  /\ pc = "failed" => log[Len(log)].arg = "error"
  /\ Merged =>
       /\ \A u \in Unmatched : Result.metadataSet[u] = Original.metadataSet[u]
       /\ merged.stats.skipped = Cardinality(Unmatched)
       /\ merged.stats.applied + merged.stats.skipped
            = Cardinality(DOMAIN Original.metadataSet)

C21_Witness ==
  /\ Merged
  /\ \E j, k \in Mismatched :
       /\ Len(log[j].items) = 0
       /\ Len(log[k].items) = 2
       /\ log[k].items[1].uid = log[k].items[2].uid
  /\ merged.stats.skipped = 1
  /\ merged.stats.applied = 1

----------------------------------------------------------------------------
(* Coverage of the leakage check *)

(* the report has an 'untranslated' item of the node that names the field *)
Reported(u, field) ==
  \E i \in 1..Len(ItemsOf("untranslated")) :
     /\ ItemsOf("untranslated")[i].uid = u
     /\ ItemsOf("untranslated")[i].field = field

(* the fields of the node, nested ones included, that hold text of the language *)
LeakingFields(meta, lang) ==
  {k \in LeakFields \cap DOMAIN meta : hasSourceLanguage(meta[k], lang)}
  \cup (IF Has(meta, "images")
           /\ \E i \in 1..Len(meta.images) :
                 Has(meta.images[i], "explain")
                 /\ hasSourceLanguage(meta.images[i].explain, lang)
        THEN {"explain"} ELSE {})
  \cup (IF Has(meta, "entries")
        THEN {k \in {"key", "text"} :
                \E i \in 1..Len(meta.entries) :
                   Has(meta.entries[i], k)
                   /\ hasSourceLanguage(meta.entries[i][k], lang)}
        ELSE {})

(* C22: every textual field of a merged node that holds text of the source
   language, htmlContent and the nested explain, key and text included, is
   named by at least one 'untranslated' item of that node *)
C22_EveryFieldCovered ==
  pc = "done" =>
    \A u \in DOMAIN Result.metadataSet :
       \A k \in LeakingFields(Result.metadataSet[u], SourceLang(Original)) :
          Reported(u, k)

----------------------------------------------------------------------------
(* The flag merge reads for a variable's initialValue *)

(* C23: when the extractor flagged a variable's initialValue as English, the
   merged initialValue is the original one for every item the translator
   returns for the node, also an item without initialValueIsEnglish or with
   the flag false *)
C23_ExtractorFlagDecides ==
  Merged =>
    \A u \in FlaggedEnglish :
       Result.metadataSet[u].initialValue = Original.metadataSet[u].initialValue

----------------------------------------------------------------------------
(* The story summary of extractCanvas *)

(* number of characters of a summary *)
SummaryLength(summary) ==
  TextLen(summary.kept) + summary.cut + Len(summary.ellipsis)

(* C25: the storySummary is never longer than 500 characters, and it is the
   coreContext of the first story node when that has at most 500 characters *)
C25_SummaryAtMost500 ==
  Extracted =>
    LET summary == extractedData.context.translationContext.storySummary
        coreContext == FirstCoreContext(Original.metadataSet)
    IN /\ SummaryLength(summary) <= 500
       /\ TextLen(coreContext) <= 500 =>
            /\ summary.kept = coreContext
            /\ summary.cut = 0
            /\ summary.ellipsis = Empty

----------------------------------------------------------------------------
(* Documents whose nodes have images without explain or no text at all *)

FieldTemplates(c) ==
  << [type |-> "image",
      images |-> <<[url |-> <<"url">>], [url |-> <<"url">>, explain |-> Word(c)]>>],
     [type |-> "image",
      images |-> <<[url |-> <<"url">>, explain |-> <<c>>],
                   [url |-> <<"url">>, explain |-> Word(c)]>>],
     [type |-> "image", name |-> Word(c), images |-> <<[url |-> <<"url">>]>>],
     [type |-> "story", advancedSettings |-> [disableDynamicMemory |-> TRUE]],
     [type |-> "story", title |-> Word(c)],
     [type |-> "lorebook", entries |-> <<>>],
     [type |-> "text"],
     [type |-> "statusView", statusTitle |-> Word(c)] >>

(* the canvas whose nodes are the given ones, in order *)
DocOf(lang, nodes) ==
  [canvas |-> [canvasLanguage |-> lang, tagCategorization |-> <<"categories">>],
   metadataSet |-> [u \in {UidOrder[i] : i \in 1..Len(nodes)} |->
                      nodes[CHOOSE i \in 1..Len(nodes) : UidOrder[i] = u]]]

FieldDocs ==
  {DocOf(lang, [i \in 1..Cardinality(picked) |->
                  FieldTemplates(LangChar(lang))[SetToSeq(picked)[i]]]) :
     lang \in Langs,
     picked \in {S \in SUBSET (1..Len(FieldTemplates("a"))) :
                   Cardinality(S) \in 1..MaxNodes}}

InitFields ==
  /\ pc = "extract"
  /\ store \in {<<d>> : d \in FieldDocs}
  /\ targetLang \in Langs
  /\ encoder \in BOOLEAN
  /\ extractedData = None
  /\ translatedBatches = NoBatches
  /\ batchIdx = 1
  /\ merged = None
  /\ again = None
  /\ validation = None
  /\ clock = 0
  /\ settings = NoSettings
  /\ limit = 0
  /\ RunIdle

SpecFields == InitFields /\ [][Next]_vars

(* the item extractCanvas made of the node *)
ItemOf(uid) ==
  LET all == Flatten(extractedData.batches, batchOrder)
  IN all[CHOOSE i \in 1..Len(all) : all[i].uid = uid]

(* the indices of the images that have an explain *)
Explained(images) ==
  SelectSeq([i \in 1..Len(images) |-> i],
            LAMBDA i : Has(images[i], "explain") /\ Truthy(images[i].explain))

(* the image nodes whose item came back with the shape it was sent with *)
SameShapeImages ==
  {u \in DOMAIN Handed \cap DOMAIN Original.metadataSet :
     /\ Original.metadataSet[u].type = "image"
     /\ Occurrences(u) = 1
     /\ Has(Handed[u], "images")
     /\ Len(Handed[u].images) = Len(ItemOf(u).images)
     /\ \A j \in 1..Len(Handed[u].images) :
          Has(Handed[u].images[j], "explain") /\ Truthy(Handed[u].images[j].explain)}

(* C24: the translated explain of the original image at index k is at index
   k of the merged images, also when some images of the node have no
   explain; the images without explain are left as they were *)
C24_ExplainsIndexAligned ==
  Merged =>
    \A u \in SameShapeImages :
       LET idx == Explained(Original.metadataSet[u].images)
           r == Result.metadataSet[u].images
       IN /\ Len(r) = Len(Original.metadataSet[u].images)
          /\ \A j \in 1..Len(idx) : r[idx[j]].explain = Handed[u].images[j].explain
          /\ \A k \in 1..Len(r) :
               k \notin Range(idx) => r[k] = Original.metadataSet[u].images[k]

(* the item has text to translate: a text field, a name or a title that is
   not empty, an entry with a key or a text, or an image with an explain *)
TextBearing(item) ==
  \/ \E k \in TextFields \cap DOMAIN item : Truthy(item[k])
  \/ /\ Has(item, "entries")
     /\ \E i \in 1..Len(item.entries) : \E k \in {"key", "text"} :
          Has(item.entries[i], k) /\ Truthy(item.entries[i][k])
  \/ /\ Has(item, "images")
     /\ \E i \in 1..Len(item.images) :
          Has(item.images[i], "explain") /\ Truthy(item.images[i].explain)

(* C26: every item placed in a batch has a text-bearing field, a name or a
   title that is not empty; advancedSettings does not count as text *)
C26_OnlyTextBearingNodes ==
  Extracted =>
    \A u \in DOMAIN Original.metadataSet :
       Occurrences(u) > 0 => TextBearing(ItemOf(u))

----------------------------------------------------------------------------
(* The claim of a job, its recorded status and its import *)

(* the calls of processRequest *)
PipelineOps ==
  {"parse", "extract", "send", "reply", "merge", "validate", "verify", "import",
   "email"}

(* processRequest is running *)
InPipeline ==
  pc \in {"parse", "extract", "glossary", "glossaryWait", "translate", "chunkWait",
          "validate", "deliver", "import", "email"}

(* the first call of the job wrote 'processing' to its row *)
Claimed ==
  /\ Len(log) >= 1
  /\ log[1].op = "status" /\ log[1].arg = STATUS.PROCESSING /\ log[1].ok

(* C27: every step of a job's pipeline comes after the write of
   'processing' to its row has succeeded, the row reads 'processing' while
   the pipeline runs, and there is no pipeline step for a job whose
   'processing' write failed *)
C27_ClaimedBeforeProcessed ==
  InJob =>
    /\ \A k \in 1..Len(log) : log[k].op \in PipelineOps => (Claimed /\ k > 1)
    /\ InPipeline => (Claimed /\ Row.status = STATUS.PROCESSING)
    /\ (Len(log) >= 1 /\ ~log[1].ok) =>
         /\ ~InPipeline
         /\ \A k \in 1..Len(log) : log[k].op \notin PipelineOps

C27_Witness ==
  /\ InJob /\ JobEnded
  /\ cur = 2
  /\ rows[requests[1]].status = STATUS.FAILED
  /\ rows[requests[1]].error = "Sheets API error"
  /\ Claimed
  /\ Attempted("parse") /\ Attempted("merge") /\ Did("email", TRUE)
  /\ Row.status = STATUS.COMPLETED

(* C28: when the handling of a job is over its row reads 'completed' if and
   only if its document was delivered, and a job whose delivery succeeded is
   not left 'processing' or written 'failed', whichever write fails *)
C28_StatusAgreesWithDelivery ==
  (InJob /\ pc \in {"next", "exit"}) =>
    /\ Row.status = STATUS.COMPLETED <=> delivery # None
    /\ delivery # None => Row.status \notin {STATUS.PROCESSING, STATUS.FAILED}

(* C30: when the import of a job has failed, none of the documents it
   inserted is in the account store, so a job delivered by e-mail has left
   nothing there *)
C30_ImportAllOrNothing ==
  (InJob /\ account # None) =>
    /\ Did("import", FALSE) => (account.metadata = <<>> /\ ~account.canvas)
    /\ (delivery # None /\ delivery.method = "email") =>
         (account.metadata = <<>> /\ ~account.canvas)

----------------------------------------------------------------------------
(* Two runs of main against one queue.  Each read of the sheet and each
   status write is one step; the steps of processRequest touch nothing the
   runs share, so the call is one step. *)

Runs == {1, 2}

(* main.js 158-218: a run before it has fetched *)
NewRun(once) ==
  [pc |-> "fetch", once |-> once, requests |-> <<>>, cur |-> 0, delivered |-> {}]

InitTwoRuns ==
  /\ pc = "runs"
  /\ rows \in Sheets
  /\ runs \in [Runs -> {NewRun(once) : once \in BOOLEAN}]
  /\ store = <<>>
  /\ targetLang = "en"
  /\ encoder = TRUE
  /\ extractedData = None
  /\ translatedBatches = NoBatches
  /\ batchIdx = 1
  /\ merged = None
  /\ again = None
  /\ validation = None
  /\ clock = 0
  /\ settings = NoSettings
  /\ limit = 0
  /\ runOnce = FALSE
  /\ requests = <<>>
  /\ cur = 0
  /\ request = None
  /\ glossary = None
  /\ chunkIdx = 1
  /\ translatedChunks = <<>>
  /\ inflight = {}
  /\ error = ""
  /\ delivery = None
  /\ log = <<>>
  /\ account = None

(* the variables a concurrent run does not write *)
soloVars ==
  <<pc, store, targetLang, encoder, extractedData, translatedBatches, batchIdx,
    merged, again, validation, clock, settings, limit, runOnce, requests, cur,
    request, glossary, chunkIdx, translatedChunks, inflight, error, delivery,
    log, account>>

(* the row the run is at *)
RowOf(r) == runs[r].requests[runs[r].cur]

(* main.js 218-223: the run reads the sheet and keeps the pending rows *)
FetchBy(r) ==
  /\ runs[r].pc = "fetch"
  /\ \/ LET found == getPendingRequests(rows, IF runs[r].once THEN 1 ELSE FetchLimit)
        IN runs' = [runs EXCEPT ![r].requests = found,
                                ![r].cur = 1,
                                ![r].pc = IF found = <<>> THEN "finished" ELSE "claim"]
     \/ runs' = [runs EXCEPT ![r].pc = "exit"]
  /\ UNCHANGED <<rows, soloVars>>

(* main.js 230: the write of 'processing'; the status the row has now is
   not read again *)
ClaimBy(r) ==
  /\ runs[r].pc = "claim"
  /\ \/ /\ rows' = updateRequestStatus(rows, RowOf(r), STATUS.PROCESSING, NoOptions)
        /\ runs' = [runs EXCEPT ![r].pc = AfterClaim(TRUE)]
     \/ /\ runs' = [runs EXCEPT ![r].pc = AfterClaim(FALSE)]
        /\ UNCHANGED rows
  /\ UNCHANGED soloVars

(* main.js 233: processRequest returns with the document delivered, or throws *)
ProcessBy(r) ==
  /\ runs[r].pc = "parse"
  /\ \/ runs' = [runs EXCEPT ![r].delivered = @ \cup {RowOf(r)},
                             ![r].pc = "markCompleted"]
     \/ runs' = [runs EXCEPT ![r].pc = "markFailed"]
  /\ UNCHANGED <<rows, soloVars>>

(* main.js 236-240 *)
MarkCompletedBy(r) ==
  /\ runs[r].pc = "markCompleted"
  /\ \/ /\ rows' = updateRequestStatus(rows, RowOf(r), STATUS.COMPLETED,
                                       [resultUrl |-> "email:addr", error |-> ""])
        /\ runs' = [runs EXCEPT ![r].pc = "next"]
     \/ /\ runs' = [runs EXCEPT ![r].pc = "markFailed"]
        /\ UNCHANGED rows
  /\ UNCHANGED soloVars

(* main.js 243-250, 262-264 *)
MarkFailedBy(r) ==
  /\ runs[r].pc = "markFailed"
  /\ \/ /\ rows' = updateRequestStatus(rows, RowOf(r), STATUS.FAILED,
                                       [resultUrl |-> "", error |-> "error"])
        /\ runs' = [runs EXCEPT ![r].pc = "next"]
     \/ /\ runs' = [runs EXCEPT ![r].pc = "exit"]
        /\ UNCHANGED rows
  /\ UNCHANGED soloVars

(* main.js 227, 252-257 *)
NextJobBy(r) ==
  /\ runs[r].pc = "next"
  /\ runs' = [runs EXCEPT ![r].cur = @ + 1,
                          ![r].pc = IF runs[r].cur < Len(runs[r].requests)
                                    THEN "claim" ELSE "finished"]
  /\ UNCHANGED <<rows, soloVars>>

NextTwoRuns ==
  \E r \in Runs :
     \/ FetchBy(r) \/ ClaimBy(r) \/ ProcessBy(r)
     \/ MarkCompletedBy(r) \/ MarkFailedBy(r) \/ NextJobBy(r)

SpecTwoRuns == InitTwoRuns /\ [][NextTwoRuns]_vars

(* C29: no row is translated and delivered by both of two concurrent runs *)
C29_NoJobProcessedTwice ==
  runs # <<>> => runs[1].delivered \cap runs[2].delivered = {}

=============================================================================
